---- MODULE Spec2Model ----
(***************************************************************************)
(* cutelog: the TCP listener (LogServer), its per-connection reader        *)
(* threads (LogConnection, BenchmarkConnection, BenchmarkMonitor), the     *)
(* GUI thread's queue of delivered signals, and the record store of the    *)
(* tabs the connections feed.                                              *)
(*                                                                         *)
(* A byte string is a sequence of units.  The four units of a length       *)
(* prefix are byte values 0..255.  A payload unit stands for a run of      *)
(* bytes that the code treats as a whole: the sentinel "!!cutelog!!", a    *)
(* command key, "=", a format name, a byte that is not UTF-8 ("xFF"), the  *)
(* tag of a serialized object ("P" a pickle, "J" a JSON text) and its      *)
(* content ("map" a mapping, "num" a number).  Lengths count units.        *)
(***************************************************************************)
EXTENDS Integers, Sequences, FiniteSets, TLC

\* ---- bounds -------------------------------------------------------------
MaxConns == 1      \* socket connections accepted in a run
MaxFrames == 2     \* frames sent by the peers plus records made by the benchmark
MaxPending == 2    \* frames of one connection sent and not yet handed to the codec
MaxTime == 2       \* timestamps and clock readings are 1..MaxTime
MaxSaved == 2      \* records in the tab that is saved to a file
MaxLoggers == 2    \* logger names registered in the namespace tree of a tab
MaxSelected == 2   \* nodes selected in the namespace tree at a time
MaxRecords == 3    \* records and markers given to the stores of the tabs
MaxStarts == 3     \* LogServer objects made in a run
MaxAccepts == 3    \* connections accepted by all of them

\* ---- program constants --------------------------------------------------
BenchId == -1                      \* on_connection(new_conn, -1)
LenBytes == 4                      \* wait_and_read(4)
default_serialization_format == "pickle"
serializers == {"pickle", "json"}  \* neither msgpack nor cbor is installed
internal_prefix == <<"!!cutelog!!">>

SockIds == 1..MaxConns
MonitorId == MaxConns + 1
ConnIds == SockIds \cup {BenchId}
ThreadIds == ConnIds \cup {MonitorId}
TabIds == 1..(MaxConns + 1)

\* ---- helpers on sequences -----------------------------------------------
Min(a, b) == IF a < b THEN a ELSE b

Range(s) == {s[i] : i \in 1..Len(s)}

Take(s, k) == SubSeq(s, 1, k)

Drop(s, k) == SubSeq(s, k + 1, Len(s))

Remove(s, x) ==
  \* list.remove(x): drops the first occurrence of x
  LET i == CHOOSE j \in 1..Len(s) : s[j] = x /\ \A k \in 1..(j - 1) : s[k] # x
  IN  Take(s, i - 1) \o Drop(s, i)

IsPrefix(s, t) == Len(s) <= Len(t) /\ \A i \in 1..Len(s) : s[i] = t[i]

\* ---- wire format --------------------------------------------------------
\* struct.pack(">L", n): what a client's handler puts before a payload
Pack(n) ==
  << (n \div 16777216) % 256, (n \div 65536) % 256, (n \div 256) % 256, n % 256 >>

\* struct.unpack(">L", read_len)[0]
Unpack(b) == ((b[1] * 256 + b[2]) * 256 + b[3]) * 256 + b[4]

Frame(p) == Pack(Len(p)) \o p

\* the payloads a peer may send
RecPickle == <<"P", "map">>
RecJson == <<"J", "map">>
NumJson == <<"J", "num">>
CmdJson == internal_prefix \o <<"format", "=", "json">>
CmdPickle == internal_prefix \o <<"format", "=", "pickle">>
CmdCbor == internal_prefix \o <<"format", "=", "cbor">>
CmdNoEq == internal_prefix \o <<"format">>
CmdBadUtf == internal_prefix \o <<"format", "=", "xFF">>
CmdUnknown == internal_prefix \o <<"level", "=", "json">>

Payloads ==
  { <<>>, RecPickle, RecJson, NumJson,
    CmdJson, CmdPickle, CmdCbor, CmdNoEq, CmdBadUtf, CmdUnknown }

\* data.startswith(self.internal_prefix)
StartsWith(d, p) == IsPrefix(p, d)

\* pickle.loads / json.loads: the object, or "Error" when the call raises
Tag(fmt) == IF fmt = "pickle" THEN "P" ELSE "J"

Deserialize(fmt, d) ==
  IF Len(d) = 2 /\ d[1] = Tag(fmt) THEN d[2] ELSE "Error"

\* LogRecord(logDict): a record, or "Error" when logDict has no .get
LogRecord(obj) == IF obj = "map" THEN "record" ELSE "Error"

\* data[len(prefix):].decode('utf-8'); cmd, value = data.split("=", 1)
\* ok is FALSE when either line raises; cmd and value are sequences of units
ParseCommand(d) ==
  LET text == Drop(d, Len(internal_prefix))
      eqs == {i \in 1..Len(text) : text[i] = "="}
  IN  IF (\E i \in 1..Len(text) : text[i] = "xFF") \/ eqs = {}
      THEN [ok |-> FALSE, cmd |-> <<>>, value |-> <<>>]
      ELSE LET i == CHOOSE j \in eqs : \A k \in eqs : j <= k
           IN  [ok |-> TRUE, cmd |-> Take(text, i - 1), value |-> Drop(text, i)]

\* handle_internal_command that never assigns self.deserialize
handle_internal_command_Ignored(fmt, d) == fmt

\* handle_internal_command without the `value in self.serializers` test
handle_internal_command_Unchecked(fmt, d) ==
  LET kv == ParseCommand(d)
  IN  IF ~kv.ok THEN fmt
      ELSE IF kv.cmd = <<"format">> /\ Len(kv.value) = 1 THEN kv.value[1] ELSE fmt

\* handle_internal_command: the deserializer in effect after the command
handle_internal_command(fmt, d) ==
  LET kv == ParseCommand(d)
  IN  IF ~kv.ok THEN fmt
      ELSE IF kv.cmd = <<"format">> /\ Len(kv.value) = 1 /\ kv.value[1] \in serializers
           THEN kv.value[1]
           ELSE fmt

\* the payloads of the runs that exercise the server and its threads
FewPayloads == {RecPickle}

\* the units of a sequence of frames, in wire order
RECURSIVE Stream(_)
Stream(ps) == IF Len(ps) = 0 THEN <<>> ELSE Frame(Head(ps)) \o Stream(Tail(ps))

\* ---- state --------------------------------------------------------------
VARIABLES
  benchmark,        \* CONFIG['benchmark']
  single_tab_mode,  \* MainWindow.single_tab_mode
  clients,          \* how many clients connect in the run
  listening,        \* the QTcpServer accepts connections
  server_running,   \* MainWindow.server_running
  conn_count,       \* LogServer.conn_count
  threads,          \* LogServer.threads
  mainPc,           \* "idle", "waiting" inside wait_connections_stopped, "aborted"
  closeList,        \* the self.threads.copy() that wait_connections_stopped walks
  closeIdx,         \* its position in closeList
  waits,            \* thread.wait(1500) calls made by close_server
  mainQueue,        \* signals queued for the GUI thread, oldest first
  deleted,          \* threads whose deleteLater has run
  pc,               \* per thread: "unborn", "read", "decode", "exit", "bench", "monitor", "done"
  phase,            \* per connection: "len" in wait_and_read(4), "data" in wait_and_read(read_len)
  n_bytes,          \* per connection: n_bytes of the wait_and_read in progress
  data,             \* per connection: data of the wait_and_read in progress
  payload,          \* per connection: data of run(), the result of the last wait_and_read(read_len)
  deserialize,      \* per connection: the format of self.deserialize
  tab_closed,       \* per connection: LogConnection.tab_closed
  interrupted,      \* per thread: isInterruptionRequested()
  sockOpen,         \* per connection: the QTcpSocket exists and has not been closed
  wire,             \* per connection: units sent by the peer, not yet received
  buf,              \* per connection: units received, not yet read (bytesAvailable)
  peerClosed,       \* per connection: the peer has closed its end
  pending,          \* per connection: payloads sent and not yet handed to the codec
  nSent,            \* per connection: frames sent
  nHanded,          \* per connection: payloads handed to the codec
  nEmitted,         \* per connection: new_record emissions
  nFailed,          \* per connection: 'Creating log record failed' errors logged
  fmtCmd,           \* per connection: format named by the last valid format command handed
  frameLate,        \* per connection: need_to_stop() held when wait_and_read(4) began
  lateRecord,       \* per connection: a record was emitted from a frame with frameLate
  finCount,         \* per connection: connection_finished emissions
  lateEmit,         \* per connection: a new_record was emitted after connection_finished
  stamp,            \* new_record emissions so far, over all connections
  tabOf,            \* per connection: the tab its new_record is connected to
  finished_to,      \* per connection: the tab its connection_finished is connected to
  tabOpen,          \* per tab: created and not destroyed
  connections,      \* per tab: LoggerTab.connections
  records,          \* per tab: LogRecordModel.records
  max_capacity,     \* per tab: LogRecordModel.max_capacity
  nTabs,            \* tabs created so far
  logDict,          \* the mapping given to the last LogRecord(logDict)
  clock,            \* what datetime.now().timestamp() returned in that call
  record,           \* the LogRecord it made
  received,         \* the LogRecords of the tab that gets saved, as they were made
  tab_records,      \* record_model.records of that tab: the same LogRecord objects now
  saved_file,       \* the file save_records wrote, if it has
  loaded_records,   \* the records of the tab load_records made, if it has
  op,               \* the name of the last operation on a store
  added,            \* per tab: the records given to add_record while addsOnly, oldest first
  addsOnly,         \* per tab: since its store was empty, only add_record has changed it
  nodes,            \* the TreeNodes of a tab's LogNamespaceTreeModel: name and parent of each
  registry,         \* LogNamespaceTreeModel.registry: logger name -> node
  selected_nodes,   \* LogNamespaceTreeModel.selected_nodes
  selection_includes_children, \* RecordFilter.selection_includes_children
  row,              \* the logger name of the record last given to filterAcceptsRow
  accepted,         \* what that filterAcceptsRow did: "True", "False" or "AttributeError"
  levels,           \* LevelFilter.levels of a tab: level name -> LogLevel
  asked_levelname,  \* the levelname last asked of the level filter
  passes,           \* whether it was in the level filter: "True" or "False"
  returned_level,   \* the levelname of the LogLevel that the last process_level returned
  search_filter,    \* RecordFilter.search_filter
  filter_string,    \* RecordFilter.filter_string
  filterRegExp,     \* RecordFilter.filterRegExp(): its pattern and pattern syntax
  filterCaseSensitivity, \* RecordFilter.filterCaseSensitivity() is Qt.CaseSensitive
  asked_record,     \* the record last given to filterAcceptsRow with all its filters
  LoggerTab_search_filter, \* LoggerTab.search_filter: the button reads 'Clear filter'
  searched,         \* the arguments of the last set_filter call
  starts,           \* how many LogServer objects MainWindow.start_server has made
  critical_dialog,  \* the last LogServer.start() showed the critical dialog
  conn_ids,         \* the conn_id of each connection accepted in the run, in order
  popped_out,       \* per tab: LoggerTab.popped_out
  window_closed     \* the tabs whose popped-out window the user has closed

configVars == << benchmark, single_tab_mode, clients >>
serverVars == << listening, server_running, conn_count, threads >>
closeVars == << mainPc, closeList, closeIdx, waits >>
peerVars == << wire, buf, peerClosed, pending, nSent >>
readVars ==
  << phase, n_bytes, data, payload, deserialize, nHanded, nFailed, fmtCmd, frameLate >>
emitVars == << nEmitted, lateRecord, lateEmit, stamp >>
tabVars == << tabOf, finished_to, tabOpen, connections, records, max_capacity, nTabs >>
saveVars == << received, tab_records, saved_file, loaded_records >>
recordVars == << logDict, clock, record, saveVars >>
\* what the listener and its connections never touch
storeVars == << op, added, addsOnly >>
treeVars == << nodes, registry, selected_nodes, selection_includes_children, row, accepted >>
levelVars == << levels, asked_levelname, passes, returned_level >>
\* the parts of a tab and of the window beside its store and its tree
searchVars ==
  << search_filter, filter_string, filterRegExp, filterCaseSensitivity, asked_record,
     LoggerTab_search_filter, searched >>
windowVars == << popped_out, window_closed >>
controlVars == << starts, critical_dialog, conn_ids, windowVars >>
otherVars == << levelVars, searchVars, controlVars >>
viewVars == << recordVars, storeVars, treeVars, otherVars >>

vars ==
  << configVars, serverVars, closeVars, mainQueue, deleted, pc, readVars, tab_closed,
     interrupted, sockOpen, peerVars, emitVars, finCount, tabVars, viewVars >>

\* the variables of the listener, its threads and the signals in flight
listenerVars ==
  << configVars, serverVars, closeVars, mainQueue, deleted, pc, readVars, tab_closed,
     interrupted, sockOpen, peerVars, finCount >>

\* need_to_stop that leaves tab_closed out
need_to_stop_InterruptOnly(c) == interrupted[c]

\* LogConnection.need_to_stop
need_to_stop(c) == tab_closed[c] \/ interrupted[c]

\* sock.state() == sock.ConnectedState: the peer's close is seen after its data
Connected(c) == ~(peerClosed[c] /\ Len(wire[c]) = 0)

\* frames sent by the peers plus records made by the benchmark connection
Produced ==
  LET F[i \in 0..MaxConns] == IF i = 0 THEN 0 ELSE F[i - 1] + nSent[i]
  IN  F[MaxConns] + nEmitted[BenchId]

\* run()'s data when wait_and_read(read_len) returned None, or before the first frame
NoData == <<"None">>

\* ---- the tab's record store ---------------------------------------------
NoRec == [conn |-> 0, seq |-> 0, stamp |-> 0, kind |-> "none", created |-> 0]

\* LogRecordModel.trim_if_needed
\* trim_if_needed that pops while len(self.records) > self.max_capacity
RECURSIVE PopWhileOver(_, _)
PopWhileOver(recs, cap) ==
  IF Len(recs) > cap THEN PopWhileOver(Tail(recs), cap) ELSE recs

trim_if_needed_Late(recs, cap) ==
  IF cap = 0 \/ Len(recs) = 0 THEN recs ELSE PopWhileOver(recs, cap)

\* the loop `while len(self.records) >= self.max_capacity: popleft()`: the
\* store when it ends, which is when popleft() raises on an empty deque too
RECURSIVE PopWhileFull(_, _)
PopWhileFull(recs, cap) ==
  IF Len(recs) >= cap /\ Len(recs) > 0 THEN PopWhileFull(Tail(recs), cap) ELSE recs

trim_if_needed(recs, cap) ==
  IF cap = 0 \/ Len(recs) = 0 THEN recs ELSE PopWhileFull(recs, cap)

\* the loop comes to popleft() on an empty deque: IndexError
RECURSIVE PopRaises(_, _)
PopRaises(recs, cap) ==
  IF Len(recs) >= cap
    THEN IF Len(recs) = 0 THEN TRUE ELSE PopRaises(Tail(recs), cap)
    ELSE FALSE

\* trim_if_needed raises IndexError
trim_if_needed_raises(recs, cap) ==
  IF cap = 0 \/ Len(recs) = 0 THEN FALSE ELSE PopRaises(recs, cap)

\* add_record that puts the record at the front
add_record_Front(recs, cap, r) == <<r>> \o trim_if_needed(recs, cap)

\* LogRecordModel.add_record(record)
add_record(recs, cap, r) ==
  IF trim_if_needed_raises(recs, cap) THEN trim_if_needed(recs, cap)
  ELSE Append(trim_if_needed(recs, cap), r)

\* LoggerTab.on_record: the store of the tab after the record is processed
on_record(t, r) == add_record(records[t], max_capacity[t], r)

\* LoggerTab.add_conn_closed_record: the marker record of a closed connection,
\* created now, which is not before the time of any record emitted so far
ClosedMarker(c) ==
  [conn |-> c, seq |-> 0, stamp |-> 0, kind |-> "closed", created |-> stamp]

\* trim_except_last_n that keeps the first n records
trim_except_last_n_First(recs, n) ==
  LET start == Len(recs) - n
  IN  IF start < 0 THEN recs ELSE SubSeq(recs, 1, n)

\* a trim that empties the store when n exceeds its size
trim_except_last_n_Emptying(recs, n) ==
  LET start == Len(recs) - n
  IN  IF start < 0 THEN <<>> ELSE SubSeq(recs, start + 1, Len(recs))

\* LogRecordModel.trim_except_last_n(n): deque(islice(self.records, start, None))
trim_except_last_n(recs, n) ==
  LET start == Len(recs) - n
  IN  IF start < 0 THEN recs ELSE SubSeq(recs, start + 1, Len(recs))

\* sorted(): r goes after every record whose key is not greater (stable)
RECURSIVE InsertSorted(_, _)
InsertSorted(sorted, r) ==
  IF Len(sorted) = 0 THEN <<r>>
  ELSE IF sorted[Len(sorted)].created <= r.created THEN Append(sorted, r)
  ELSE Append(InsertSorted(SubSeq(sorted, 1, Len(sorted) - 1), r), sorted[Len(sorted)])

RECURSIVE Sorted(_)
Sorted(recs) ==
  IF Len(recs) = 0 THEN <<>>
  ELSE InsertSorted(Sorted(SubSeq(recs, 1, Len(recs) - 1)), recs[Len(recs)])

\* a sort that puts a record before those of equal key
RECURSIVE InsertBeforeEqual(_, _)
InsertBeforeEqual(sorted, r) ==
  IF Len(sorted) = 0 THEN <<r>>
  ELSE IF sorted[Len(sorted)].created < r.created THEN Append(sorted, r)
  ELSE Append(InsertBeforeEqual(SubSeq(sorted, 1, Len(sorted) - 1), r), sorted[Len(sorted)])

RECURSIVE SortedUnstable(_)
SortedUnstable(recs) ==
  IF Len(recs) = 0 THEN <<>>
  ELSE InsertBeforeEqual(SortedUnstable(SubSeq(recs, 1, Len(recs) - 1)), recs[Len(recs)])

merge_with_records_Unstable(recs, new_records) == SortedUnstable(recs \o new_records)

\* LogRecordModel.merge_with_records(new_records):
\* sorted(chain(self.records, new_records), key=attrgetter('created'))
merge_with_records(recs, new_records) == Sorted(recs \o new_records)

\* ---- signals ------------------------------------------------------------
RecordEvent(c, r) == [type |-> "new_record", conn |-> c, tab |-> tabOf[c], rec |-> r]

FinishedEvents(c) ==
  << [type |-> "connection_finished", conn |-> c, tab |-> finished_to[c], rec |-> NoRec],
     [type |-> "finished", conn |-> c, tab |-> tabOf[c], rec |-> NoRec] >>

\* self.new_record.emit(record), the record built from frame number seq
EmitRecord(c, seq) ==
  LET r == [conn |-> c, seq |-> seq, stamp |-> stamp + 1, kind |-> "rec",
            created |-> stamp + 1]
  IN  /\ mainQueue' = Append(mainQueue, RecordEvent(c, r))
      /\ nEmitted' = [nEmitted EXCEPT ![c] = @ + 1]
      /\ stamp' = stamp + 1
      /\ lateRecord' = [lateRecord EXCEPT ![c] = @ \/ frameLate[c]]
      /\ lateEmit' = [lateEmit EXCEPT ![c] = @ \/ finCount[c] > 0]

\* self.connection_finished.emit(self), then run() returns and QThread emits finished
EmitFinished(c) ==
  /\ mainQueue' = mainQueue \o FinishedEvents(c)
  /\ finCount' = [finCount EXCEPT ![c] = @ + 1]
  /\ pc' = [pc EXCEPT ![c] = "done"]

\* ---- LogRecord ------------------------------------------------------------
\* Python values of a decoded mapping: None, a number (int or float), a string
None == [type |-> "none", num |-> 0, str |-> ""]
Num(n) == [type |-> "num", num |-> n, str |-> ""]
Str(x) == [type |-> "str", num |-> 0, str |-> x]

Times == 1..MaxTime

\* str.upper() on the strings in use
Upper(x) ==
  CASE x = "warn" -> "WARN"
    [] x = "Info" -> "INFO"
    [] x = "info" -> "INFO"
    [] x = "trace" -> "TRACE"
    [] x = "Trace" -> "TRACE"
    [] x = "fatal" -> "FATAL"
    [] OTHER -> x

\* the decoded mappings given to LogRecord; m.key is logDict.get(key), None when
\* the key is absent
Dicts ==
  [ message : {None, Str("hello")},
    msg : {None, Str("hi")},
    levelname : {None, Str("Info")},
    level : {None, Str("warn")},
    created : {None, Str("soon")} \cup {Num(i) : i \in Times},
    time : {None, Str("late")} \cup {Num(i) : i \in Times} ]

EmptyDict ==
  [message |-> None, msg |-> None, levelname |-> None, level |-> None,
   created |-> None, time |-> None]

\* no LogRecord made yet
NoRecord == [message |-> None, levelname |-> None, created |-> None]

\* LogRecord.__init__ with message taken from 'msg' before 'message'
LogRecord__init__MsgFirst(m, tm) ==
  LET message == IF m.msg # None THEN m.msg ELSE m.message
      level == IF m.levelname # None THEN m.levelname ELSE m.level
      levelname == IF level # None THEN Str(Upper(level.str)) ELSE None
      created == IF m.created # None THEN m.created ELSE m.time
  IN  [message |-> message, levelname |-> levelname,
       created |-> IF created = None \/ created.type # "num" THEN Num(tm) ELSE created]

\* LogRecord.__init__(logDict), tm being datetime.now().timestamp()
LogRecord__init__(m, tm) ==
  LET message == IF m.message # None THEN m.message ELSE m.msg
      level == IF m.levelname # None THEN m.levelname ELSE m.level
      levelname == IF level # None THEN Str(Upper(level.str)) ELSE None
      created == IF m.created # None THEN m.created ELSE m.time
  IN  [message |-> message, levelname |-> levelname,
       created |-> IF created = None \/ created.type # "num" THEN Num(tm) ELSE created]

\* ---- the namespace tree -----------------------------------------------------
\* A logger name is the sequence of the pieces between its dots: 'a.b' is
\* <<"a", "b">>, '.a' is <<"", "a">>, the empty string is <<"">>. A record
\* without a name (record.name is None) has NoName.
RootName == <<"">>
NoName == <<>>
Root == 1
NoNode == 0

LoggerNames == { <<"a">>, <<"b">>, <<"a", "b">>, <<"", "a">>, <<"", "">> }

\* TreeNode.path: the names of the node and of its ancestors below the root,
\* joined by '.'; cur_parent.parent of a node without parent raises
RECURSIVE PathFrom(_, _, _)
PathFrom(ns, cur_parent, result) ==
  IF ns[cur_parent].parent = NoNode THEN result
  ELSE PathFrom(ns, ns[cur_parent].parent, <<ns[cur_parent].name>> \o result)

path(ns, n) ==
  IF ns[n].parent = NoNode THEN [ok |-> FALSE, str |-> <<>>]
  ELSE [ok |-> TRUE, str |-> PathFrom(ns, ns[n].parent, <<ns[n].name>>)]

\* a register_logger that hangs every new node below the root
register_logger_Flat(st, full_name) ==
  IF full_name \in DOMAIN st.registry
    THEN [st EXCEPT !.result = st.registry[full_name]]
    ELSE LET result == Len(st.nodes) + 1
         IN  [nodes |-> Append([st.nodes EXCEPT ![Root].children = Append(@, result)],
                               [name |-> full_name[Len(full_name)], parent |-> Root,
                                children |-> <<>>]),
              registry |-> st.registry @@ (full_name :> result),
              result |-> result]

\* LogNamespaceTreeModel.register_logger(full_name) on the tree st: the tree
\* afterwards, with the node returned
RECURSIVE register_logger(_, _)
register_logger(st, full_name) ==
  IF full_name \in DOMAIN st.registry
    THEN [st EXCEPT !.result = st.registry[full_name]]
    ELSE LET name == full_name[Len(full_name)]
             up == IF Len(full_name) = 1
                     THEN [st EXCEPT !.result = Root]
                     ELSE register_logger(st, SubSeq(full_name, 1, Len(full_name) - 1))
             result == Len(up.nodes) + 1
         IN  [nodes |-> Append([up.nodes EXCEPT ![up.result].children = Append(@, result)],
                               [name |-> name, parent |-> up.result, children |-> <<>>]),
              registry |-> up.registry @@ (full_name :> result),
              result |-> result]

\* name.startswith(path + '.')
StartsWithDotted(name, p) == Len(name) > Len(p) /\ SubSeq(name, 1, Len(p)) = p

\* the orders in which `for node in selected_nodes` can go through a set
Orders(S) == {o \in [1..Cardinality(S) -> S] : Range(o) = S}

\* RecordFilter.filterAcceptsRow for a record of logger name `name` that the
\* level filter lets through, without a search filter: the loop from node i on
RECURSIVE FilterLoop(_, _, _, _, _, _)
FilterLoop(ns, order, i, name, children, result) ==
  IF i > Len(order) THEN result
  ELSE LET p == path(ns, order[i])
       IN  IF ~p.ok THEN "AttributeError"
           ELSE IF p.str = RootName THEN "True"
           ELSE IF name = NoName THEN FilterLoop(ns, order, i + 1, name, children, "False")
           ELSE IF name = p.str THEN "True"
           ELSE IF ~children /\ name = p.str THEN "True"
           ELSE IF children /\ StartsWithDotted(name, p.str) THEN "True"
           ELSE FilterLoop(ns, order, i + 1, name, children, "False")

filterAcceptsRow(ns, order, name, children) ==
  IF Len(order) = 0 THEN "True" ELSE FilterLoop(ns, order, 1, name, children, "True")

\* ---- the levels of a tab ---------------------------------------------------
\* A LogLevel is its enabled flag and its presentation, `style` naming the
\* default level the colours and styles are those of.
LogLevel(enabled, style) == [enabled |-> enabled, style |-> style]

DEFAULT_LEVELS ==
  [n \in {"DEBUG", "INFO", "WARNING", "ERROR", "CRITICAL"} |-> LogLevel(TRUE, n)]

NO_LEVEL == LogLevel(TRUE, "NO_LEVEL")

get_default_level(name) ==
  IF name \in DOMAIN DEFAULT_LEVELS THEN DEFAULT_LEVELS[name]
  ELSE IF name \in {"FATAL", "PANIC"} THEN DEFAULT_LEVELS["CRITICAL"]
  ELSE IF name = "WARN" THEN DEFAULT_LEVELS["WARNING"]
  ELSE NO_LEVEL

\* a level filter that lets a record of a disabled level through
LevelFilter__contains__Any(lv, name) ==
  IF name = None THEN TRUE
  ELSE name.str \in DOMAIN lv

\* LevelFilter.__contains__(levelname) over the levels lv
LevelFilter__contains__(lv, name) ==
  IF name = None THEN TRUE
  ELSE IF name.str \in DOMAIN lv /\ lv[name.str].enabled THEN TRUE
  ELSE FALSE

\* a process_level that makes a new level for every spelling
process_level_AsSpelled(lv, name) ==
  IF name \in DOMAIN lv
    THEN [levels |-> lv, result |-> name]
    ELSE [levels |-> lv @@ (name :> get_default_level(name)), result |-> name]

\* LoggerTab.process_level(levelname) over the levels lv: the levels
\* afterwards and the name of the LogLevel returned
process_level(lv, name) ==
  LET up == Upper(name)
  IN  IF up \in DOMAIN lv
        THEN [levels |-> lv, result |-> up]
        ELSE [levels |-> lv @@ (up :> get_default_level(up)), result |-> up]

\* ---- the search filter of a tab ---------------------------------------------
\* A text is the sequence of its characters.  record.message is a text or None.
Msg(text) == [has |-> TRUE, text |-> text]
NoMsg == [has |-> FALSE, text |-> <<>>]

\* no set_filter call yet
NotSearched == [string |-> <<>>, regexp |-> FALSE, wildcard |-> FALSE, casesensitive |-> FALSE]

\* no record asked about yet
NoShownRecord == [levelname |-> None, name |-> NoName, message |-> NoMsg]

\* str.lower() on the characters in use
LowerChar(c) == IF c = "H" THEN "h" ELSE c

lower(text) == [i \in 1..Len(text) |-> LowerChar(text[i])]

\* x in text, for two str
In(x, text) ==
  \E i \in 0..(Len(text) - Len(x)) : SubSeq(text, i + 1, i + Len(x)) = x

QRegExp(pattern, syntax) == [pattern |-> pattern, syntax |-> syntax]

\* two characters are the same to a QRegExp of case sensitivity cs
SameChar(a, b, cs) == IF cs THEN a = b ELSE LowerChar(a) = LowerChar(b)

\* QRegExp.exactMatch of a pattern of syntax RegExp made of characters and of
\* c* for zero or more c
RECURSIVE RegExpMatch(_, _, _)
RegExpMatch(pattern, text, cs) ==
  IF Len(pattern) = 0 THEN Len(text) = 0
  ELSE IF Len(pattern) >= 2 /\ pattern[2] = "*"
    THEN \/ RegExpMatch(Tail(Tail(pattern)), text, cs)
         \/ /\ Len(text) > 0
            /\ SameChar(pattern[1], text[1], cs)
            /\ RegExpMatch(pattern, Tail(text), cs)
  ELSE /\ Len(text) > 0
       /\ SameChar(pattern[1], text[1], cs)
       /\ RegExpMatch(Tail(pattern), Tail(text), cs)

\* QRegExp.exactMatch of a pattern of syntax Wildcard made of characters and
\* of * for any characters
RECURSIVE WildcardMatch(_, _, _)
WildcardMatch(pattern, text, cs) ==
  IF Len(pattern) = 0 THEN Len(text) = 0
  ELSE IF pattern[1] = "*"
    THEN \/ WildcardMatch(Tail(pattern), text, cs)
         \/ Len(text) > 0 /\ WildcardMatch(pattern, Tail(text), cs)
  ELSE /\ Len(text) > 0
       /\ SameChar(pattern[1], text[1], cs)
       /\ WildcardMatch(Tail(pattern), Tail(text), cs)

exactMatch(regexp, text, cs) ==
  IF regexp.syntax = "Wildcard" THEN WildcardMatch(regexp.pattern, text, cs)
  ELSE RegExpMatch(regexp.pattern, text, cs)

\* RecordFilter.set_filter(string, regexp, wildcard, casesensitive) on the
\* search state f
set_filter(f, string, regexp, wildcard, casesensitive) ==
  LET g == IF regexp THEN [f EXCEPT !.filterRegExp = QRegExp(string, "RegExp")]
           ELSE IF wildcard THEN [f EXCEPT !.filterRegExp = QRegExp(string, "Wildcard")]
           ELSE [f EXCEPT !.filter_string = IF ~casesensitive THEN lower(string) ELSE string,
                          !.filterRegExp = QRegExp(<<>>, "RegExp")]
  IN  [g EXCEPT !.search_filter = TRUE, !.filterCaseSensitivity = casesensitive]

\* RecordFilter.clear_filter()
clear_filter(f) ==
  [f EXCEPT !.search_filter = FALSE, !.filter_string = <<>>,
            !.filterRegExp = QRegExp(<<>>, "RegExp")]

\* the end of filterAcceptsRow, reached with result True and a search filter
SearchAccepts(f, message) ==
  IF ~message.has THEN FALSE
  ELSE IF Len(f.filterRegExp.pattern) # 0
    THEN exactMatch(f.filterRegExp, message.text, f.filterCaseSensitivity)
  ELSE LET msg == IF ~f.filterCaseSensitivity THEN lower(message.text) ELSE message.text
       IN  In(f.filter_string, msg)

\* a filter that shows a record without message whatever is searched for
RecordFilter_filterAcceptsRow_NoMessage(lv, ns, order, children, f, rec) ==
  IF ~LevelFilter__contains__(lv, rec.levelname) THEN "False"
  ELSE LET result == filterAcceptsRow(ns, order, rec.name, children)
       IN  IF result = "True" /\ f.search_filter /\ rec.message.has
             THEN IF SearchAccepts(f, rec.message) THEN "True" ELSE "False"
             ELSE result

\* RecordFilter.filterAcceptsRow(sourceRow, sourceParent) for the record rec
\* of that row: the level filter, the selected nodes, the search filter
RecordFilter_filterAcceptsRow(lv, ns, order, children, f, rec) ==
  IF ~LevelFilter__contains__(lv, rec.levelname) THEN "False"
  ELSE LET result == filterAcceptsRow(ns, order, rec.name, children)
       IN  IF result = "True" /\ f.search_filter
             THEN IF SearchAccepts(f, rec.message) THEN "True" ELSE "False"
             ELSE result

\* ---- initial state: MainWindow() has run start_server() -----------------
\* everything but which tabs exist
Constructed ==
  /\ listening = TRUE
  /\ server_running = TRUE
  /\ conn_count = 0
  /\ threads = IF benchmark THEN <<MonitorId, BenchId>> ELSE <<>>
  /\ mainPc = "idle"
  /\ closeList = <<>>
  /\ closeIdx = 0
  /\ waits = 0
  /\ mainQueue = <<>>
  /\ deleted = {}
  /\ pc = [t \in ThreadIds |->
             IF benchmark /\ t = BenchId THEN "bench"
             ELSE IF benchmark /\ t = MonitorId THEN "monitor"
             ELSE "unborn"]
  /\ phase = [c \in ConnIds |-> "len"]
  /\ n_bytes = [c \in ConnIds |-> LenBytes]
  /\ data = [c \in ConnIds |-> <<>>]
  /\ payload = [c \in ConnIds |-> NoData]
  /\ deserialize = [c \in ConnIds |-> default_serialization_format]
  /\ tab_closed = [c \in ConnIds |-> FALSE]
  /\ interrupted = [t \in ThreadIds |-> FALSE]
  /\ sockOpen = [c \in ConnIds |-> FALSE]
  /\ wire = [c \in ConnIds |-> <<>>]
  /\ buf = [c \in ConnIds |-> <<>>]
  /\ peerClosed = [c \in ConnIds |-> FALSE]
  /\ pending = [c \in ConnIds |-> <<>>]
  /\ nSent = [c \in ConnIds |-> 0]
  /\ nHanded = [c \in ConnIds |-> 0]
  /\ nEmitted = [c \in ConnIds |-> 0]
  /\ nFailed = [c \in ConnIds |-> 0]
  /\ fmtCmd = [c \in ConnIds |-> default_serialization_format]
  /\ frameLate = [c \in ConnIds |-> FALSE]
  /\ lateRecord = [c \in ConnIds |-> FALSE]
  /\ finCount = [c \in ConnIds |-> 0]
  /\ lateEmit = [c \in ConnIds |-> FALSE]
  /\ stamp = 0
  /\ tabOf = [c \in ConnIds |-> IF benchmark /\ c = BenchId THEN 1 ELSE 0]
  /\ finished_to = [c \in ConnIds |-> IF benchmark /\ c = BenchId THEN 1 ELSE 0]
  /\ connections = [t \in TabIds |-> IF benchmark /\ t = 1 THEN <<BenchId>> ELSE <<>>]
  /\ records = [t \in TabIds |-> <<>>]
  /\ max_capacity = [t \in TabIds |-> 0]
  /\ logDict = EmptyDict
  /\ clock = 1
  /\ record = NoRecord
  /\ op = "none"
  /\ added = [t \in TabIds |-> <<>>]
  /\ addsOnly = [t \in TabIds |-> TRUE]
  /\ nodes = << [name |-> "", parent |-> NoNode, children |-> <<>>] >>
  /\ registry = (RootName :> Root)
  /\ selected_nodes = {}
  /\ selection_includes_children = TRUE
  /\ row = NoName
  /\ accepted = "none"
  /\ levels = DEFAULT_LEVELS
  /\ asked_levelname = None
  /\ passes = "none"
  /\ returned_level = ""
  /\ search_filter = FALSE
  /\ filter_string = <<>>
  /\ filterRegExp = QRegExp(<<>>, "RegExp")
  /\ filterCaseSensitivity = TRUE
  /\ asked_record = NoShownRecord
  /\ LoggerTab_search_filter = FALSE
  /\ searched = NotSearched
  /\ received = <<>>
  /\ tab_records = <<>>
  /\ saved_file = [exists |-> FALSE, records |-> <<>>]
  /\ loaded_records = [exists |-> FALSE, records |-> <<>>]
  /\ starts = 1
  /\ critical_dialog = FALSE
  /\ conn_ids = <<>>
  /\ popped_out = [t \in TabIds |-> FALSE]
  /\ window_closed = {}

\* MainWindow() has run start_server(): the benchmark connection has its tab
Started ==
  /\ Constructed
  /\ tabOpen = [t \in TabIds |-> benchmark /\ t = 1]
  /\ nTabs = IF benchmark THEN 1 ELSE 0

Init ==
  /\ benchmark \in BOOLEAN
  /\ single_tab_mode \in BOOLEAN
  /\ clients = MaxConns
  /\ Started

\* one client, no benchmark connection
WireInit ==
  /\ benchmark = FALSE
  /\ single_tab_mode = FALSE
  /\ clients = 1
  /\ Started

\* ---- the peer and the network -------------------------------------------
\* the peer's handler sends one frame
PeerSend(c, p) ==
  /\ sockOpen[c]
  /\ ~peerClosed[c]
  /\ Produced < MaxFrames
  /\ Len(pending[c]) < MaxPending
  /\ wire' = [wire EXCEPT ![c] = @ \o Frame(p)]
  /\ pending' = [pending EXCEPT ![c] = Append(@, p)]
  /\ nSent' = [nSent EXCEPT ![c] = @ + 1]
  /\ UNCHANGED << configVars, viewVars, serverVars, closeVars, mainQueue, deleted, pc, readVars,
                  tab_closed, interrupted, sockOpen, buf, peerClosed, emitVars,
                  finCount, tabVars >>

\* the next k units reach the socket
Arrive(c, k) ==
  /\ sockOpen[c]
  /\ k \in 1..Len(wire[c])
  /\ buf' = [buf EXCEPT ![c] = @ \o Take(wire[c], k)]
  /\ wire' = [wire EXCEPT ![c] = Drop(@, k)]
  /\ UNCHANGED << configVars, viewVars, serverVars, closeVars, mainQueue, deleted, pc, readVars,
                  tab_closed, interrupted, sockOpen, peerClosed, pending, nSent,
                  emitVars, finCount, tabVars >>

\* the peer closes its end; what it sent still arrives
PeerClose(c) ==
  /\ sockOpen[c]
  /\ ~peerClosed[c]
  /\ peerClosed' = [peerClosed EXCEPT ![c] = TRUE]
  /\ UNCHANGED << configVars, viewVars, serverVars, closeVars, mainQueue, deleted, pc, readVars,
                  tab_closed, interrupted, sockOpen, wire, buf, pending, nSent,
                  emitVars, finCount, tabVars >>

\* the connection breaks; what has not arrived is lost
PeerAbort(c) ==
  /\ sockOpen[c]
  /\ ~peerClosed[c]
  /\ Len(wire[c]) > 0
  /\ peerClosed' = [peerClosed EXCEPT ![c] = TRUE]
  /\ wire' = [wire EXCEPT ![c] = <<>>]
  /\ UNCHANGED << configVars, viewVars, serverVars, closeVars, mainQueue, deleted, pc, readVars,
                  tab_closed, interrupted, sockOpen, buf, pending, nSent, emitVars,
                  finCount, tabVars >>

\* ---- LogConnection.run --------------------------------------------------
\* what the loop does with a complete payload (lines 160-170): the
\* deserializer afterwards, and whether a record is emitted
FrameFormat(fmt, d) ==
  IF StartsWith(d, internal_prefix) THEN handle_internal_command(fmt, d) ELSE fmt

\* lines 164-170 with LogRecord(logDict) outside the try: a mapping is not required
FrameEmits_Unbuilt(fmt, d) ==
  /\ ~StartsWith(d, internal_prefix)
  /\ Deserialize(fmt, d) # "Error"

FrameEmits(fmt, d) ==
  /\ ~StartsWith(d, internal_prefix)
  /\ Deserialize(fmt, d) # "Error"
  /\ LogRecord(Deserialize(fmt, d)) # "Error"

\* the except branch of lines 167-169 is taken
FrameFails(fmt, d) == ~StartsWith(d, internal_prefix) /\ ~FrameEmits(fmt, d)

\* wait_and_read returned a complete length prefix: `if not read_len` is false,
\* read_len is unpacked, and wait_and_read(read_len) begins; with read_len = 0 its
\* loop is not entered, it returns b"" and `if not data: break` leaves the loop
GotLength(c, d) ==
  LET read_len == Unpack(d)
  IN  /\ phase' = [phase EXCEPT ![c] = "data"]
      /\ n_bytes' = [n_bytes EXCEPT ![c] = read_len]
      /\ data' = [data EXCEPT ![c] = <<>>]
      /\ IF read_len = 0
           THEN /\ payload' = [payload EXCEPT ![c] = <<>>]
                /\ pc' = [pc EXCEPT ![c] = "exit"]
           ELSE UNCHANGED << payload, pc >>

\* wait_and_read returns None: `if not read_len: break` or `if not data: break`
ReturnNone(c) ==
  /\ pc' = [pc EXCEPT ![c] = "exit"]
  /\ payload' = [payload EXCEPT ![c] = IF phase[c] = "data" THEN NoData ELSE @]
  /\ UNCHANGED << phase, n_bytes, data, buf >>

\* one pass of the while loop of wait_and_read; the pass that completes the
\* length prefix goes on to GotLength, the pass that completes the payload
\* returns it to the loop of run()
WaitAndRead(c) ==
  /\ pc[c] = "read"
  /\ IF Len(buf[c]) = 0
       THEN \* waitForReadyRead(100) returned False
            IF ~Connected(c) \/ need_to_stop(c)
              THEN ReturnNone(c)
              ELSE UNCHANGED << pc, payload, phase, n_bytes, data, buf >>
       ELSE IF need_to_stop(c)
       THEN ReturnNone(c)
       ELSE LET k == Min(Len(buf[c]), n_bytes[c] - Len(data[c]))
                d == data[c] \o Take(buf[c], k)
            IN  /\ buf' = [buf EXCEPT ![c] = Drop(@, k)]
                /\ IF Len(d) < n_bytes[c]
                     THEN /\ data' = [data EXCEPT ![c] = d]
                          /\ UNCHANGED << pc, payload, phase, n_bytes >>
                     ELSE IF phase[c] = "len"
                     THEN GotLength(c, d)
                     ELSE /\ payload' = [payload EXCEPT ![c] = d]
                          /\ data' = [data EXCEPT ![c] = <<>>]
                          /\ pc' = [pc EXCEPT ![c] = "decode"]
                          /\ UNCHANGED << phase, n_bytes >>
  /\ UNCHANGED << configVars, viewVars, serverVars, closeVars, mainQueue, deleted, deserialize,
                  nHanded, nFailed, fmtCmd, frameLate, tab_closed, interrupted, sockOpen,
                  wire, peerClosed, pending, nSent, emitVars, finCount, tabVars >>

\* the format a payload names when it is a well-formed command for a registered format
NamedFormat(fmt, d) ==
  IF d = CmdJson THEN "json" ELSE IF d = CmdPickle THEN "pickle" ELSE fmt

\* lines 160-170 on the payload just read, then wait_and_read(4) begins
ProcessFrame(c) ==
  /\ pc[c] = "decode"
  /\ nHanded' = [nHanded EXCEPT ![c] = @ + 1]
  /\ pending' = [pending EXCEPT ![c] = Tail(@)]
  /\ fmtCmd' = [fmtCmd EXCEPT ![c] = NamedFormat(@, payload[c])]
  /\ deserialize' = [deserialize EXCEPT ![c] = FrameFormat(@, payload[c])]
  /\ IF FrameEmits(deserialize[c], payload[c])
       THEN EmitRecord(c, nHanded[c] + 1)
       ELSE UNCHANGED << mainQueue, emitVars >>
  /\ nFailed' = [nFailed EXCEPT ![c] =
                   IF FrameFails(deserialize[c], payload[c]) THEN @ + 1 ELSE @]
  /\ pc' = [pc EXCEPT ![c] = "read"]
  /\ phase' = [phase EXCEPT ![c] = "len"]
  /\ n_bytes' = [n_bytes EXCEPT ![c] = LenBytes]
  /\ frameLate' = [frameLate EXCEPT ![c] = need_to_stop(c)]
  /\ UNCHANGED << configVars, viewVars, serverVars, closeVars, deleted, data, payload, tab_closed,
                  interrupted, sockOpen, wire, buf, peerClosed, nSent, finCount,
                  tabVars >>

\* lines 172-176 without sock.close()
CloseAndFinish_SocketLeftOpen(c) ==
  /\ pc[c] = "exit"
  /\ EmitFinished(c)
  /\ UNCHANGED << configVars, viewVars, serverVars, closeVars, deleted, readVars, tab_closed,
                  interrupted, sockOpen, peerVars, emitVars, tabVars >>

\* lines 172-176: sock.disconnectFromHost(); sock.close(); connection_finished
CloseAndFinish(c) ==
  /\ pc[c] = "exit"
  /\ sockOpen' = [sockOpen EXCEPT ![c] = FALSE]
  /\ buf' = [buf EXCEPT ![c] = <<>>]
  /\ EmitFinished(c)
  /\ UNCHANGED << configVars, viewVars, serverVars, closeVars, deleted, readVars, tab_closed,
                  interrupted, wire, peerClosed, pending, nSent, emitVars, tabVars >>

\* ---- BenchmarkConnection.run, BenchmarkMonitor.run ----------------------
\* one pass of the loop of BenchmarkConnection.run
BenchRun ==
  /\ pc[BenchId] = "bench"
  /\ IF need_to_stop(BenchId)
       THEN /\ EmitFinished(BenchId)
            /\ UNCHANGED emitVars
       ELSE /\ Produced < MaxFrames
            /\ EmitRecord(BenchId, nEmitted[BenchId] + 1)
            /\ UNCHANGED << pc, finCount >>
  /\ UNCHANGED << configVars, viewVars, serverVars, closeVars, deleted, readVars, tab_closed,
                  interrupted, sockOpen, peerVars, tabVars >>

\* the pass of BenchmarkMonitor.run that sees isInterruptionRequested()
MonitorRun ==
  /\ pc[MonitorId] = "monitor"
  /\ interrupted[MonitorId]
  /\ pc' = [pc EXCEPT ![MonitorId] = "done"]
  /\ UNCHANGED << configVars, viewVars, serverVars, closeVars, mainQueue, deleted, readVars,
                  tab_closed, interrupted, sockOpen, peerVars, emitVars, finCount,
                  tabVars >>
\* ---- the GUI thread -----------------------------------------------------
OpenTabs == {t \in TabIds : tabOpen[t]}

\* list(self.loggers_by_name.values())[0]: the oldest open tab
FirstTab == CHOOSE t \in OpenTabs : \A u \in OpenTabs : t <= u

\* LogServer.incomingConnection with MainWindow.on_connection; the thread's
\* run() has created its socket and is about to call wait_and_read(4)
incomingConnection ==
  LET c == conn_count + 1
      reuse == single_tab_mode /\ OpenTabs # {}
      t == IF reuse THEN FirstTab ELSE nTabs + 1
  IN  /\ mainPc = "idle"
      /\ listening
      /\ conn_count < clients
      /\ conn_count' = c
      /\ threads' = Append(threads, c)
      /\ tabOf' = [tabOf EXCEPT ![c] = t]
      /\ finished_to' = [finished_to EXCEPT ![c] = t]
      /\ connections' = [connections EXCEPT ![t] = Append(@, c)]
      /\ tabOpen' = [tabOpen EXCEPT ![t] = TRUE]
      /\ nTabs' = IF reuse THEN nTabs ELSE nTabs + 1
      /\ pc' = [pc EXCEPT ![c] = "read"]
      /\ sockOpen' = [sockOpen EXCEPT ![c] = TRUE]
      /\ UNCHANGED << configVars, viewVars, listening, server_running, closeVars, mainQueue,
                      deleted, readVars, tab_closed, interrupted, peerVars, emitVars,
                      finCount, records, max_capacity >>

\* a cleanup_connection that leaves the connection in the list
cleanup_connection_Kept(ths, c) == ths

\* LogServer.cleanup_connection
cleanup_connection(ths, c) == IF c \in Range(ths) THEN Remove(ths, c) ELSE ths

\* the GUI thread's event loop delivers the oldest queued signal to its slots:
\*   new_record          -> LoggerTab.on_record
\*   connection_finished -> LoggerTab.remove_connection, LogServer.cleanup_connection
\*                          (and BenchmarkMonitor.requestInterruption for the benchmark)
\*   finished            -> deleteLater
DeliverSignal ==
  LET e == Head(mainQueue)
      c == e.conn
      t == e.tab
  IN  /\ mainPc = "idle"
      /\ Len(mainQueue) > 0
      /\ mainQueue' = Tail(mainQueue)
      /\ IF e.type = "new_record"
           THEN /\ records' = [records EXCEPT ![t] = on_record(t, e.rec)]
                /\ UNCHANGED << connections, threads, interrupted, deleted >>
         ELSE IF e.type = "connection_finished"
           THEN /\ IF t \in TabIds /\ c \in Range(connections[t])
                     THEN /\ connections' = [connections EXCEPT ![t] = Remove(@, c)]
                          /\ records' = [records EXCEPT ![t] = on_record(t, ClosedMarker(c))]
                     ELSE UNCHANGED << connections, records >>
                /\ threads' = cleanup_connection(threads, c)
                /\ interrupted' = IF c = BenchId
                                    THEN [interrupted EXCEPT ![MonitorId] = TRUE]
                                    ELSE interrupted
                /\ UNCHANGED deleted
         ELSE /\ deleted' = deleted \cup {c}
              /\ UNCHANGED << connections, records, threads, interrupted >>
      /\ UNCHANGED << configVars, viewVars, listening, server_running, conn_count, closeVars, pc,
                      readVars, tab_closed, sockOpen, peerVars, emitVars, finCount, tabOf, finished_to, tabOpen, max_capacity, nTabs >>

\* MainWindow.close_tab -> destroy_logger -> LoggerTab.destroy
destroy(t) ==
  /\ mainPc = "idle"
  /\ tabOpen[t]
  /\ tabOpen' = [tabOpen EXCEPT ![t] = FALSE]
  /\ tab_closed' = [c \in ConnIds |-> tab_closed[c] \/ c \in Range(connections[t])]
  /\ records' = [records EXCEPT ![t] = <<>>]
  /\ UNCHANGED << configVars, viewVars, serverVars, closeVars, mainQueue, deleted, pc, readVars,
                  interrupted, sockOpen, peerVars, emitVars, finCount, tabOf, finished_to, connections,
                  max_capacity, nTabs >>

\* LogServer.close_server up to the call of wait_connections_stopped
close_server ==
  /\ mainPc = "idle"
  /\ server_running
  /\ listening' = FALSE
  /\ interrupted' = [t \in ThreadIds |-> interrupted[t] \/ t \in Range(threads)]
  /\ closeList' = threads
  /\ closeIdx' = 1
  /\ waits' = 0
  /\ mainPc' = "waiting"
  /\ UNCHANGED << configVars, viewVars, server_running, conn_count, threads, mainQueue, deleted,
                  pc, readVars, tab_closed, sockOpen, peerVars, emitVars, finCount,
                  tabVars >>

\* close_server returns to MainWindow.stop_server
CloseReturns ==
  /\ mainPc' = "idle"
  /\ server_running' = FALSE
  /\ UNCHANGED << closeList, closeIdx >>

\* wait_connections_stopped with thread.wait(): no timeout, a running thread blocks it
wait_connections_stopped_NoTimeout ==
  /\ mainPc = "waiting"
  /\ IF closeIdx > Len(closeList)
       THEN CloseReturns /\ UNCHANGED waits
       ELSE LET t == closeList[closeIdx]
            IN  /\ t \in deleted \/ pc[t] = "done"
                /\ waits' = waits + 1
                /\ closeIdx' = closeIdx + 1
                /\ UNCHANGED << mainPc, server_running, closeList >>
  /\ UNCHANGED << configVars, viewVars, listening, conn_count, threads, mainQueue, deleted, pc,
                  readVars, tab_closed, interrupted, sockOpen, peerVars, emitVars,
                  finCount, tabVars >>

\* one pass of the loop of wait_connections_stopped: thread.wait(1500) returns
\* True for a finished thread, False after 1500 ms for a running one, and
\* raises RuntimeError for a deleted one; after the last pass close_server returns
wait_connections_stopped ==
  /\ mainPc = "waiting"
  /\ IF closeIdx > Len(closeList)
       THEN CloseReturns /\ UNCHANGED waits
       ELSE LET t == closeList[closeIdx]
            IN  /\ waits' = waits + 1
                /\ IF t \in deleted \/ pc[t] = "done"
                     THEN /\ closeIdx' = closeIdx + 1
                          /\ UNCHANGED << mainPc, server_running, closeList >>
                     ELSE CloseReturns
  /\ UNCHANGED << configVars, viewVars, listening, conn_count, threads, mainQueue, deleted, pc,
                  readVars, tab_closed, interrupted, sockOpen, peerVars, emitVars,
                  finCount, tabVars >>

\* ---- specifications ---------------------------------------------------
\* the server, its clients and the benchmark threads: whole frames of valid
\* records arrive, the user stops the server and closes no tab
Next ==
  \/ \E c \in SockIds, p \in FewPayloads : PeerSend(c, p)
  \/ \E c \in SockIds : Arrive(c, Len(wire[c]))
  \/ \E c \in SockIds : PeerClose(c)
  \/ \E c \in SockIds : WaitAndRead(c)
  \/ \E c \in SockIds : ProcessFrame(c)
  \/ \E c \in SockIds : CloseAndFinish(c)
  \/ BenchRun
  \/ MonitorRun
  \/ incomingConnection
  \/ DeliverSignal
  \/ close_server
  \/ wait_connections_stopped

Spec == Init /\ [][Next]_vars

\* one connection and every payload, arriving unit by unit: the user closes
\* tabs and does not stop the server
WireNext ==
  \/ \E c \in SockIds, p \in Payloads : PeerSend(c, p)
  \/ \E c \in SockIds : Arrive(c, 1)
  \/ \E c \in SockIds : PeerClose(c)
  \/ \E c \in SockIds : PeerAbort(c)
  \/ \E c \in SockIds : WaitAndRead(c)
  \/ \E c \in SockIds : ProcessFrame(c)
  \/ \E c \in SockIds : CloseAndFinish(c)
  \/ incomingConnection
  \/ DeliverSignal
  \/ \E t \in TabIds : destroy(t)

WireSpec == WireInit /\ [][WireNext]_vars

\* one connection fed valid records unit by unit, with both ways of
\* cancelling it; every thread that can take a step eventually takes it
LiveNext ==
  \/ \E c \in SockIds, p \in FewPayloads : PeerSend(c, p)
  \/ \E c \in SockIds : Arrive(c, 1)
  \/ \E c \in SockIds : PeerClose(c)
  \/ \E c \in SockIds : PeerAbort(c)
  \/ \E c \in SockIds : WaitAndRead(c)
  \/ \E c \in SockIds : ProcessFrame(c)
  \/ \E c \in SockIds : CloseAndFinish(c)
  \/ incomingConnection
  \/ DeliverSignal
  \/ \E t \in TabIds : destroy(t)
  \/ close_server
  \/ wait_connections_stopped

LiveSpec ==
  /\ WireInit
  /\ [][LiveNext]_vars
  /\ \A c \in SockIds :
       /\ WF_vars(WaitAndRead(c))
       /\ WF_vars(ProcessFrame(c))
       /\ WF_vars(CloseAndFinish(c))
  /\ WF_vars(wait_connections_stopped)

\* the server and its threads while the peers send nothing; close_server's
\* loop goes on whatever the other threads do
CloseNext ==
  \/ \E c \in SockIds : PeerClose(c)
  \/ \E c \in SockIds : WaitAndRead(c)
  \/ \E c \in SockIds : CloseAndFinish(c)
  \/ BenchRun
  \/ MonitorRun
  \/ incomingConnection
  \/ DeliverSignal
  \/ close_server
  \/ wait_connections_stopped

CloseSpec == Init /\ [][CloseNext]_vars /\ WF_vars(wait_connections_stopped)

\* ---- LogRecord construction alone ----------------------------------------
\* record = LogRecord(logDict) as in LogConnection.run, line 166
BuildLogRecord(m, tm) ==
  /\ logDict' = m
  /\ clock' = tm
  /\ record' = LogRecord__init__(m, tm)
  /\ UNCHANGED << saveVars, otherVars, listenerVars, emitVars, tabVars, storeVars, treeVars >>

RecordNext == \E m \in Dicts, tm \in Times : BuildLogRecord(m, tm)

RecordSpec == WireInit /\ [][RecordNext]_vars

\* ---- the stores of two tabs ------------------------------------------------
\* what the records of the stores are made from
StoreTimes == 1..2
StoreDicts == {[EmptyDict EXCEPT !.created = Num(i)] : i \in StoreTimes}

\* the clock reads the latest of these timestamps
Latest == CHOOSE x \in StoreTimes : \A y \in StoreTimes : y <= x

\* the capacities the user sets, 0 for no limit
Capacities == 0..2

\* how many records the user asks to keep
Keeps == 0..2

\* the tabs that take part: a merge has one destination and one source
StoreTabs == 1..2

\* an entry of a store: the record number id, with the created of its LogRecord
StoreEntry(id, kind, rec) ==
  [conn |-> 0, seq |-> 0, stamp |-> id, kind |-> kind, created |-> rec.created.num]

\* two tabs are open, their connections have delivered nothing yet
StoreInit ==
  /\ benchmark = FALSE
  /\ single_tab_mode = FALSE
  /\ clients = 0
  /\ Constructed
  /\ tabOpen = [t \in TabIds |-> TRUE]
  /\ nTabs = MaxConns + 1

\* the store of tab t changes to recs by an add_record of r
Added(t, r, name) ==
  /\ stamp < MaxRecords
  /\ tabOpen[t]
  /\ stamp' = stamp + 1
  /\ records' = [records EXCEPT ![t] = on_record(t, r)]
  /\ added' = [added EXCEPT ![t] = IF addsOnly[t] THEN Append(@, r) ELSE @]
  /\ op' = IF trim_if_needed_raises(records[t], max_capacity[t]) THEN "IndexError" ELSE name
  /\ UNCHANGED << otherVars, listenerVars, nEmitted, lateRecord, lateEmit, tabOf, finished_to, tabOpen,
                  connections, max_capacity, nTabs, recordVars, addsOnly, treeVars >>

\* a connection's new_record reaches LoggerTab.on_record of tab t
new_record(t, m, tm) ==
  Added(t, StoreEntry(stamp + 1, "rec", LogRecord__init__(m, tm)), "add_record")

\* LoggerTab.add_conn_closed_record
add_conn_closed_record(t, tm) ==
  Added(t, StoreEntry(stamp + 1, "closed", LogRecord__init__(EmptyDict, tm)),
        "add_conn_closed_record")

\* a store that is empty starts afresh; one that is changed otherwise than by
\* add_record has no longer seen add_record only
StartsAfresh(t, recs) ==
  /\ added' = [added EXCEPT ![t] = <<>>]
  /\ addsOnly' = [addsOnly EXCEPT ![t] = Len(recs) = 0]

\* MainWindow.set_max_capacity -> LoggerTab.set_max_capacity
set_max_capacity(t, n) ==
  LET recs == trim_if_needed(records[t], n)
  IN  /\ tabOpen[t]
      /\ max_capacity' = [max_capacity EXCEPT ![t] = n]
      /\ records' = [records EXCEPT ![t] = recs]
      /\ StartsAfresh(t, recs)
      /\ op' = IF trim_if_needed_raises(records[t], n) THEN "IndexError"
               ELSE "set_max_capacity"
      /\ UNCHANGED << otherVars, listenerVars, emitVars, tabOf, finished_to, tabOpen, connections, nTabs,
                      recordVars, treeVars >>

\* MainWindow.trim_current_tab_records
trim_current_tab_records(t, n) ==
  LET recs == trim_except_last_n(records[t], n)
  IN  /\ tabOpen[t]
      /\ records' = [records EXCEPT ![t] = recs]
      /\ StartsAfresh(t, recs)
      /\ op' = "trim_except_last_n"
      /\ UNCHANGED << otherVars, listenerVars, emitVars, tabOf, finished_to, tabOpen, connections,
                      max_capacity, nTabs, recordVars, treeVars >>

\* MainWindow.merge_tabs(dst, [src], keep_alive)
merge_tabs(dst, src, keep_alive) ==
  /\ mainPc = "idle"
  /\ dst # src
  /\ tabOpen[dst] /\ tabOpen[src]
  /\ records' = [records EXCEPT ![dst] = merge_with_records(records[dst], records[src]),
                                ![src] = <<>>]
  /\ connections' = IF keep_alive
                      THEN [connections EXCEPT ![dst] = @ \o connections[src], ![src] = <<>>]
                      ELSE connections
  /\ tabOf' = [c \in ConnIds |->
                 IF keep_alive /\ c \in Range(connections[src]) THEN dst ELSE tabOf[c]]
  /\ finished_to' = [c \in ConnIds |->
                       IF keep_alive /\ c \in Range(connections[src]) THEN 0
                       ELSE finished_to[c]]
  /\ tab_closed' = [c \in ConnIds |->
                      tab_closed[c] \/ (~keep_alive /\ c \in Range(connections[src]))]
  /\ tabOpen' = [tabOpen EXCEPT ![src] = FALSE]
  /\ addsOnly' = [addsOnly EXCEPT ![dst] = FALSE, ![src] = FALSE]
  /\ added' = [added EXCEPT ![dst] = <<>>, ![src] = <<>>]
  /\ op' = "merge_tabs"
  /\ UNCHANGED << otherVars, configVars, serverVars, closeVars, mainQueue, deleted, pc, readVars,
                  interrupted, sockOpen, peerVars, finCount, emitVars, max_capacity,
                  nTabs, recordVars, treeVars >>

StoreNext ==
  \/ \E t \in StoreTabs, m \in StoreDicts : new_record(t, m, 1)
  \/ \E t \in StoreTabs : add_conn_closed_record(t, Latest)
  \/ \E t \in StoreTabs, n \in Capacities : set_max_capacity(t, n)
  \/ \E t \in StoreTabs, n \in Keeps : trim_current_tab_records(t, n)
  \/ \E dst, src \in StoreTabs, keep_alive \in BOOLEAN : merge_tabs(dst, src, keep_alive)

StoreSpec == StoreInit /\ [][StoreNext]_vars

\* ---- capacity and trim count as arguments ------------------------------------
\* the integers given to set_max_capacity and trim_except_last_n; the dialogs
\* of the window deliver those from 0 on
Arguments == -1..3

ArgumentNext ==
  \/ \E m \in StoreDicts : new_record(1, m, 1)
  \/ \E n \in Arguments : set_max_capacity(1, n)
  \/ \E n \in Arguments : trim_current_tab_records(1, n)

ArgumentSpec == StoreInit /\ [][ArgumentNext]_vars

\* ---- saving the records of a tab and loading them ----------------------------
\* the mappings of the records that get saved: those of Dicts with the key
\* '_created', None for a key that is absent
NotSaved == [message |-> None, msg |-> None, levelname |-> None, level |-> None,
             created |-> None, time |-> None, _created |-> None]

SaveDicts ==
  { [NotSaved EXCEPT !.msg = Str("hi"), !.created = c, !.time = t] :
      c \in {None, Num(0), Num(1)}, t \in {None, Str("late"), Num(2)} }

\* bool(d.get(key, False)) for the value v of the key
Truthy(v) == (v.type = "num" /\ v.num # 0) \/ (v.type = "str" /\ v.str # "")

\* a LogRecord object: its _logDict and its created attribute, a number
LogRecordObject(m, tm) == [_logDict |-> m, created |-> LogRecord__init__(m, tm).created.num]

\* RecordList.__iter__ of save_records: what is yielded for one record, which
\* is the record's own _logDict
RecordList__iter__(rec) ==
  LET d == rec._logDict
  IN  IF ~Truthy(d.created) /\ ~Truthy(d.time)
        THEN [d EXCEPT !._created = Num(rec.created)]
        ELSE d

\* RecordDecoder.object_hook of load_records, tm being the time of the call
object_hook(obj, tm) ==
  IF obj._created # None
    THEN LET o == [obj EXCEPT !.created = obj._created, !._created = None]
         IN  [LogRecordObject(o, tm) EXCEPT !._logDict = [o EXCEPT !.created = None]]
    ELSE LogRecordObject(obj, tm)

\* a connection of the tab delivers a record made at time tm from mapping m
ReceiveRecord(m, tm) ==
  /\ Len(tab_records) < MaxSaved
  /\ clock <= tm
  /\ clock' = tm
  /\ received' = Append(received, LogRecordObject(m, tm))
  /\ tab_records' = Append(tab_records, LogRecordObject(m, tm))
  /\ UNCHANGED << logDict, record, saved_file, loaded_records, otherVars, listenerVars,
                  emitVars, tabVars, storeVars, treeVars >>

\* MainWindow.save_records: json.dump of the mappings RecordList yields
save_records ==
  /\ saved_file' = [exists |-> TRUE,
                    records |-> [i \in 1..Len(tab_records) |->
                                   RecordList__iter__(tab_records[i])]]
  /\ tab_records' = [i \in 1..Len(tab_records) |->
                       [tab_records[i] EXCEPT !._logDict = RecordList__iter__(tab_records[i])]]
  /\ UNCHANGED << logDict, clock, record, received, loaded_records, otherVars, listenerVars,
                  emitVars, tabVars, storeVars, treeVars >>

\* MainWindow.load_records at time tm: json.load with RecordDecoder, then
\* merge_with_records into the new tab
load_records(tm) ==
  /\ saved_file.exists
  /\ clock <= tm
  /\ clock' = tm
  /\ loaded_records' =
       [exists |-> TRUE,
        records |-> merge_with_records(<<>>, [i \in 1..Len(saved_file.records) |->
                                               object_hook(saved_file.records[i], tm)])]
  /\ UNCHANGED << logDict, record, received, tab_records, saved_file, otherVars,
                  listenerVars, emitVars, tabVars, storeVars, treeVars >>

SaveNext ==
  \/ \E m \in SaveDicts, tm \in Times : ReceiveRecord(m, tm)
  \/ save_records
  \/ \E tm \in Times : load_records(tm)

SaveSpec == WireInit /\ [][SaveNext]_vars

\* ---- merging tabs while their connections run --------------------------------
\* the benchmark connection feeds the first tab, one client the second
MergeInit ==
  /\ benchmark = TRUE
  /\ single_tab_mode = FALSE
  /\ clients = 1
  /\ Started

\* a new_record queued for the slot of a tab from which merge_tabs has since
\* disconnected the signal: the binding either still delivers it to that slot
\* (DeliverSignal) or discards it with the connection
DiscardDisconnected ==
  LET e == Head(mainQueue)
  IN  /\ mainPc = "idle"
      /\ Len(mainQueue) > 0
      /\ e.type = "new_record" /\ e.tab # tabOf[e.conn]
      /\ mainQueue' = Tail(mainQueue)
      /\ UNCHANGED << configVars, viewVars, serverVars, closeVars, deleted, pc, readVars,
                      tab_closed, interrupted, sockOpen, peerVars, emitVars, finCount, tabVars >>

\* the listener with the user merging the tabs in the merge dialog
MergeNext ==
  \/ \E c \in SockIds, p \in FewPayloads : PeerSend(c, p)
  \/ \E c \in SockIds : Arrive(c, Len(wire[c]))
  \/ \E c \in SockIds : PeerClose(c)
  \/ \E c \in SockIds : WaitAndRead(c)
  \/ \E c \in SockIds : ProcessFrame(c)
  \/ \E c \in SockIds : CloseAndFinish(c)
  \/ BenchRun
  \/ incomingConnection
  \/ DeliverSignal
  \/ DiscardDisconnected
  \/ \E dst, src \in TabIds, keep_alive \in BOOLEAN : merge_tabs(dst, src, keep_alive)

MergeSpec == MergeInit /\ [][MergeNext]_vars

\* the same with every merge made with keep-alive off; every thread that can
\* take a step eventually takes it
MergeOffNext ==
  \/ \E c \in SockIds, p \in FewPayloads : PeerSend(c, p)
  \/ \E c \in SockIds : Arrive(c, Len(wire[c]))
  \/ \E c \in SockIds : PeerClose(c)
  \/ \E c \in SockIds : WaitAndRead(c)
  \/ \E c \in SockIds : ProcessFrame(c)
  \/ \E c \in SockIds : CloseAndFinish(c)
  \/ BenchRun
  \/ MonitorRun
  \/ incomingConnection
  \/ DeliverSignal
  \/ \E dst, src \in TabIds : merge_tabs(dst, src, FALSE)

MergeOffSpec ==
  /\ MergeInit
  /\ [][MergeOffNext]_vars
  /\ \A c \in SockIds :
       /\ WF_vars(WaitAndRead(c))
       /\ WF_vars(ProcessFrame(c))
       /\ WF_vars(CloseAndFinish(c))
  /\ WF_vars(BenchRun)

\* ---- the routes by which a tab is closed --------------------------------------
\* everything but the window state of the tabs
windowFrame ==
  << listenerVars, emitVars, tabVars, recordVars, storeVars, treeVars, levelVars, searchVars,
     starts, critical_dialog, conn_ids >>

\* MainWindow.pop_out_tab for the tab t of the tab widget
pop_out_tab(t) ==
  /\ mainPc = "idle"
  /\ tabOpen[t] /\ ~popped_out[t]
  /\ popped_out' = [popped_out EXCEPT ![t] = TRUE]
  /\ UNCHANGED << window_closed, windowFrame >>

\* MainWindow.pop_in_tab for a tab chosen in the pop-in dialog
pop_in_tab(t) ==
  /\ mainPc = "idle"
  /\ tabOpen[t] /\ popped_out[t] /\ t \notin window_closed
  /\ popped_out' = [popped_out EXCEPT ![t] = FALSE]
  /\ UNCHANGED << window_closed, windowFrame >>

\* MainWindow.close_tab(index) for the tab t of the tab widget
close_tab(t) == ~popped_out[t] /\ destroy(t)

\* LoggerTab.closeEvent, called when the user closes the window of a popped-out
\* tab: self.stop_all_connections() is defined nowhere, the AttributeError
\* leaves closeEvent before close_popped_out_logger is called. PyQt5 from 5.5
\* on aborts the program on an exception raised in closeEvent, which ends every
\* thread; older ones print it and go on, and the window is deleted
\* (WA_DeleteOnClose)
LoggerTab_closeEvent(t) ==
  /\ mainPc = "idle"
  /\ tabOpen[t] /\ popped_out[t] /\ t \notin window_closed
  /\ window_closed' = window_closed \cup {t}
  /\ \E abort \in BOOLEAN :
       /\ mainPc' = IF abort THEN "aborted" ELSE mainPc
       /\ pc' = IF abort THEN [th \in ThreadIds |-> "done"] ELSE pc
       /\ sockOpen' = IF abort THEN [c \in ConnIds |-> FALSE] ELSE sockOpen
  /\ UNCHANGED << popped_out, configVars, serverVars, closeList, closeIdx, waits, mainQueue,
                  deleted, readVars, tab_closed, interrupted, peerVars, finCount, emitVars,
                  tabVars, recordVars, storeVars, treeVars, levelVars, searchVars, starts,
                  critical_dialog, conn_ids >>

\* a signal queued for a tab whose window has been deleted: Qt has dropped the
\* connections to its slots, those to the server remain
DeliverToDeleted ==
  LET e == Head(mainQueue)
      c == e.conn
  IN  /\ mainPc = "idle"
      /\ Len(mainQueue) > 0
      /\ e.type # "finished" /\ e.tab \in window_closed
      /\ mainQueue' = Tail(mainQueue)
      /\ threads' = IF e.type = "connection_finished" THEN cleanup_connection(threads, c)
                    ELSE threads
      /\ interrupted' = IF e.type = "connection_finished" /\ c = BenchId
                          THEN [interrupted EXCEPT ![MonitorId] = TRUE]
                          ELSE interrupted
      /\ UNCHANGED << configVars, viewVars, listening, server_running, conn_count, closeVars,
                      deleted, pc, readVars, tab_closed, sockOpen, peerVars, emitVars,
                      finCount, tabVars >>

\* a signal queued for anything else
DeliverToLiving ==
  /\ Len(mainQueue) > 0
  /\ Head(mainQueue).type = "finished" \/ Head(mainQueue).tab \notin window_closed
  /\ DeliverSignal

\* MainWindow.shutdown once stop_server() has returned: destroy_all_tabs()
destroy_all_tabs ==
  /\ mainPc = "idle"
  /\ ~server_running
  /\ OpenTabs # {}
  /\ tabOpen' = [t \in TabIds |-> FALSE]
  /\ tab_closed' = [c \in ConnIds |->
                      tab_closed[c] \/ \E t \in OpenTabs : c \in Range(connections[t])]
  /\ records' = [t \in TabIds |-> IF tabOpen[t] THEN <<>> ELSE records[t]]
  /\ UNCHANGED << configVars, viewVars, serverVars, closeVars, mainQueue, deleted, pc, readVars,
                  interrupted, sockOpen, peerVars, emitVars, finCount, tabOf, finished_to,
                  connections, max_capacity, nTabs >>

\* the listener with the user closing tabs by each route
CloseRouteNext ==
  \/ \E c \in SockIds, p \in FewPayloads : PeerSend(c, p)
  \/ \E c \in SockIds : Arrive(c, Len(wire[c]))
  \/ \E c \in SockIds : WaitAndRead(c)
  \/ \E c \in SockIds : ProcessFrame(c)
  \/ \E c \in SockIds : CloseAndFinish(c)
  \/ BenchRun
  \/ MonitorRun
  \/ incomingConnection
  \/ DeliverToLiving
  \/ DeliverToDeleted
  \/ \E t \in TabIds : pop_out_tab(t)
  \/ \E t \in TabIds : pop_in_tab(t)
  \/ \E t \in TabIds : close_tab(t)
  \/ \E t \in TabIds : LoggerTab_closeEvent(t)
  \/ \E dst, src \in TabIds : merge_tabs(dst, src, FALSE)
  \/ close_server
  \/ wait_connections_stopped
  \/ destroy_all_tabs

CloseRouteSpec == MergeInit /\ [][CloseRouteNext]_vars

\* ---- the namespace tree and the record filter of a tab ----------------------
\* LoggerTab.on_record of a record with a name: register_logger(record.name)
RegisterName(full_name) ==
  LET st == register_logger([nodes |-> nodes, registry |-> registry, result |-> Root],
                            full_name)
  IN  /\ Cardinality(DOMAIN registry) <= MaxLoggers
      /\ nodes' = st.nodes
      /\ registry' = st.registry
      /\ UNCHANGED << otherVars, listenerVars, emitVars, tabVars, recordVars, storeVars,
                      selected_nodes, selection_includes_children, row, accepted >>

\* LogNamespaceTreeModel.selection_changed: the view selects or deselects the
\* node of an index; index() makes indexes of the nodes below the root,
\* parent() makes one of the root
selection_changed(n) ==
  /\ n \in 1..Len(nodes)
  /\ IF n \in selected_nodes
       THEN selected_nodes' = selected_nodes \ {n}
       ELSE /\ Cardinality(selected_nodes) < MaxSelected
            /\ selected_nodes' = selected_nodes \cup {n}
  /\ UNCHANGED << otherVars, listenerVars, emitVars, tabVars, recordVars, storeVars, nodes,
                  registry, selection_includes_children, row, accepted >>

\* LoggerTab.toggle_selection_includes_children
toggle_selection_includes_children(val) ==
  /\ selection_includes_children' = val
  /\ UNCHANGED << otherVars, listenerVars, emitVars, tabVars, recordVars, storeVars, nodes,
                  registry, selected_nodes, row, accepted >>

\* the filter model asks filterAcceptsRow about a record of logger name `name`
FilterRow(name, order) ==
  /\ row' = name
  /\ accepted' = filterAcceptsRow(nodes, order, name, selection_includes_children)
  /\ UNCHANGED << otherVars, listenerVars, emitVars, tabVars, recordVars, storeVars, nodes,
                  registry, selected_nodes, selection_includes_children >>

RecordNames == LoggerNames \cup {NoName}

FilterNext ==
  \/ \E full_name \in LoggerNames : RegisterName(full_name)
  \/ \E n \in 1..(2 * MaxLoggers + 1) : selection_changed(n)
  \/ \E val \in BOOLEAN : toggle_selection_includes_children(val)
  \/ \E name \in RecordNames, order \in Orders(selected_nodes) : FilterRow(name, order)

FilterSpec == WireInit /\ [][FilterNext]_vars

\* ---- the levels of a tab and its level filter -------------------------------
\* the level names that records come with, in the spellings they are sent in
LevelInputs == {"INFO", "Info", "info", "TRACE", "trace", "WARN", "fatal"}

\* record.levelname of the records in a store
LevelNames == {None, Str("")} \cup {Str(Upper(x)) : x \in LevelInputs} \cup {Str("DEBUG")}

\* the levels of the presets a user has saved
Presets ==
  { [n \in {"INFO"} |-> LogLevel(FALSE, n)],
    [n \in {"DEBUG", "TRACE"} |-> LogLevel(n = "DEBUG", "NO_LEVEL")] }

\* LoggerTab.process_level(levelname), as on_record and merge_with_records call it
ProcessLevel(x) ==
  LET r == process_level(levels, x)
  IN  /\ levels' = r.levels
      /\ returned_level' = r.result
      /\ UNCHANGED << controlVars, listenerVars, emitVars, tabVars, recordVars, storeVars, treeVars,
                  searchVars,
                      asked_levelname, passes >>

\* a click on the checkbox of a level: LogLevel.set_enabled
set_enabled(name, enabled) ==
  /\ name \in DOMAIN levels
  /\ levels' = [levels EXCEPT ![name].enabled = enabled]
  /\ UNCHANGED << controlVars, listenerVars, emitVars, tabVars, recordVars, storeVars, treeVars,
                  searchVars,
                  asked_levelname, passes, returned_level >>

\* LoggerTab.levels_changed: LevelFilter.merge_with(levels) of a preset
levels_changed(new_levels) ==
  /\ levels' = new_levels
  /\ UNCHANGED << controlVars, listenerVars, emitVars, tabVars, recordVars, storeVars, treeVars,
                  searchVars,
                  asked_levelname, passes, returned_level >>

\* filterAcceptsRow asks `record.levelname not in self.level_filter`
LevelFilterAsked(name) ==
  /\ asked_levelname' = name
  /\ passes' = IF LevelFilter__contains__(levels, name) THEN "True" ELSE "False"
  /\ UNCHANGED << controlVars, listenerVars, emitVars, tabVars, recordVars, storeVars, treeVars,
                  searchVars,
                  levels, returned_level >>

LevelNext ==
  \/ \E x \in LevelInputs : ProcessLevel(x)
  \/ \E name \in {Upper(x) : x \in LevelInputs} \cup {"DEBUG"}, enabled \in BOOLEAN :
       set_enabled(name, enabled)
  \/ \E new_levels \in Presets : levels_changed(new_levels)
  \/ \E name \in LevelNames : LevelFilterAsked(name)

LevelSpec == WireInit /\ [][LevelNext]_vars

\* ---- a tab with its store, its levels and its namespace tree ----------------
\* the logger names and level names of the records a tab is given
TabRecordKinds ==
  { [name |-> NoName, levelname |-> None],
    [name |-> <<"a">>, levelname |-> Str("INFO")],
    [name |-> <<"a", "b">>, levelname |-> Str("TRACE")] }

\* the numbers of the records a connection of the tab emits
TabSeqs == 1..2

\* what the actions of a tab leave alone
tabFrame ==
  << configVars, closeVars, deleted, readVars, tab_closed, interrupted, sockOpen, peerVars,
     lateRecord, lateEmit, max_capacity, recordVars, storeVars, selected_nodes,
     selection_includes_children, row, accepted, asked_levelname, passes, returned_level,
     searchVars, controlVars >>

\* a LogRecord of connection c with its name and levelname attributes
NamedRecord(c, seq, tm, name, levelname) ==
  [conn |-> c, seq |-> seq, stamp |-> tm, kind |-> "rec", created |-> tm,
   name |-> name, levelname |-> levelname]

\* LogRecord({'_cutelog': ...}) of add_conn_closed_record: no name, no level
NamedMarker(c) ==
  [conn |-> c, seq |-> 0, stamp |-> 0, kind |-> "closed", created |-> stamp,
   name |-> NoName, levelname |-> None]

\* the state of a LoggerTab: record_model.records, level_filter.levels and the
\* namespace tree model
TabState(recs, lv, ns, reg) == [records |-> recs, levels |-> lv, nodes |-> ns, registry |-> reg]

\* `if record.levelname:` and `if record.name:`
HasLevel(r) == r.levelname # None /\ r.levelname.str # ""
HasName(r) == r.name # NoName /\ r.name # RootName

\* the levels after process_level(record.levelname), the tree after
\* register_logger(record.name)
WithLevelOf(lv, r) == IF HasLevel(r) THEN process_level(lv, r.levelname.str).levels ELSE lv
WithNameOf(ns, reg, r) ==
  IF HasName(r)
    THEN register_logger([nodes |-> ns, registry |-> reg, result |-> Root], r.name)
    ELSE [nodes |-> ns, registry |-> reg, result |-> Root]

\* an on_record that stores the record and registers nothing
LoggerTab_on_record_StoreOnly(st, cap, r) ==
  [st EXCEPT !.records = add_record(st.records, cap, r)]

\* LoggerTab.on_record(record)
LoggerTab_on_record(st, cap, r) ==
  LET tree == WithNameOf(st.nodes, st.registry, r)
  IN  TabState(add_record(st.records, cap, r), WithLevelOf(st.levels, r),
               tree.nodes, tree.registry)

\* the loop of LoggerTab.merge_with_records over new_records
RECURSIVE RegisterMerged(_, _)
RegisterMerged(st, new_records) ==
  IF Len(new_records) = 0 THEN st
  ELSE LET r == Head(new_records)
           tree == WithNameOf(st.nodes, st.registry, r)
       IN  IF r.kind = "closed" THEN RegisterMerged(st, Tail(new_records))
           ELSE RegisterMerged(TabState(st.records, WithLevelOf(st.levels, r),
                                        tree.nodes, tree.registry),
                               Tail(new_records))

\* a merge_with_records that merges the stores only
LoggerTab_merge_with_records_StoresOnly(st, new_records) ==
  [st EXCEPT !.records = merge_with_records(st.records, new_records)]

\* LoggerTab.merge_with_records(new_records)
LoggerTab_merge_with_records(st, new_records) ==
  RegisterMerged([st EXCEPT !.records = merge_with_records(st.records, new_records)],
                 new_records)

\* the tab of the model is tab 1: its state, and the state st written back
TheTab == TabState(records[1], levels, nodes, registry)

TabBecomes(st) ==
  /\ records' = [records EXCEPT ![1] = st.records]
  /\ levels' = st.levels
  /\ nodes' = st.nodes
  /\ registry' = st.registry

\* the records of another tab or of a file: one record, or a record and the
\* marker of its connection
ForeignStores ==
  { << NamedRecord(2, 1, 1, <<"a">>, Str("INFO")) >>,
    << NamedRecord(2, 1, 1, <<"a", "b">>, Str("TRACE")),
       [NamedMarker(2) EXCEPT !.created = 1] >> }

\* an emit that runs the slot in the handler's thread, as a direct connection does
run_emits_Direct(c, name, levelname) ==
  /\ pc[c] = "read"
  /\ nEmitted[c] + 1 \in TabSeqs
  /\ TabBecomes(LoggerTab_on_record(TheTab, max_capacity[1],
                                    NamedRecord(c, nEmitted[c] + 1, stamp + 1, name, levelname)))
  /\ nEmitted' = [nEmitted EXCEPT ![c] = @ + 1]
  /\ stamp' = stamp + 1
  /\ UNCHANGED << tabFrame, serverVars, pc, finCount, mainQueue, tabOf, finished_to, tabOpen,
                  connections, nTabs >>

\* LogConnection.run, lines 164-170, in the thread of connection c: a record is
\* built and new_record is emitted
run_emits(c, name, levelname) ==
  /\ pc[c] = "read"
  /\ nEmitted[c] + 1 \in TabSeqs
  /\ mainQueue' = Append(mainQueue,
                         RecordEvent(c, NamedRecord(c, nEmitted[c] + 1, stamp + 1, name,
                                                    levelname)))
  /\ nEmitted' = [nEmitted EXCEPT ![c] = @ + 1]
  /\ stamp' = stamp + 1
  /\ UNCHANGED << tabFrame, serverVars, pc, finCount, tabVars, levels, nodes, registry >>

\* LogConnection.run, lines 172-176: the loop is left and connection_finished
\* is emitted
run_finishes(c) ==
  /\ pc[c] = "read"
  /\ EmitFinished(c)
  /\ UNCHANGED << tabFrame, serverVars, nEmitted, stamp, tabVars, levels, nodes, registry >>

\* the GUI thread delivers the oldest queued signal of the tab's connection:
\*   new_record          -> LoggerTab.on_record
\*   connection_finished -> LoggerTab.remove_connection, LogServer.cleanup_connection
\*   finished            -> deleteLater
TabDelivers ==
  LET e == Head(mainQueue)
      c == e.conn
  IN  /\ Len(mainQueue) > 0
      /\ mainQueue' = Tail(mainQueue)
      /\ IF e.type = "new_record"
           THEN /\ TabBecomes(LoggerTab_on_record(TheTab, max_capacity[1], e.rec))
                /\ UNCHANGED << connections, threads >>
         ELSE IF e.type = "connection_finished"
           THEN /\ IF c \in Range(connections[1])
                     THEN /\ connections' = [connections EXCEPT ![1] = Remove(@, c)]
                          /\ TabBecomes(LoggerTab_on_record(TheTab, max_capacity[1],
                                                            NamedMarker(c)))
                     ELSE UNCHANGED << connections, records, levels, nodes, registry >>
                /\ threads' = cleanup_connection(threads, c)
         ELSE UNCHANGED << connections, threads, records, levels, nodes, registry >>
      /\ UNCHANGED << tabFrame, listening, server_running, conn_count, pc, finCount, nEmitted,
                      stamp, tabOf, finished_to, tabOpen, nTabs >>

\* MainWindow.merge_tabs with the tab as destination: the records of the
\* source tab are merged in
TabMerges(new_records) ==
  /\ tabOpen[1]
  /\ \A i \in 1..Len(records[1]) : records[1][i].conn # 2
  /\ TabBecomes(LoggerTab_merge_with_records(TheTab, new_records))
  /\ UNCHANGED << tabFrame, serverVars, mainQueue, pc, finCount, nEmitted, stamp, tabOf,
                  finished_to, tabOpen, connections, nTabs >>

\* MainWindow.load_records: create_logger makes the tab, with the levels of a
\* new LevelFilter and an empty tree, and the loaded records are merged in
TabLoads(new_records) ==
  /\ nTabs = 0
  /\ tabOpen' = [tabOpen EXCEPT ![1] = TRUE]
  /\ nTabs' = 1
  /\ TabBecomes(LoggerTab_merge_with_records(TabState(<<>>, DEFAULT_LEVELS, nodes, registry),
                                             new_records))
  /\ UNCHANGED << tabFrame, serverVars, mainQueue, pc, finCount, nEmitted, stamp, tabOf,
                  finished_to, connections >>

\* the presets a user saves from the presets dialog or loads in it
TabPresets ==
  { DEFAULT_LEVELS,
    [n \in {"INFO", "TRACE"} |-> LogLevel(n = "INFO", n)],
    [n \in {"DEBUG"} |-> LogLevel(TRUE, n)] }

\* the presets dialog is accepted with the levels of a preset
TabLevelsChanged(new_levels) ==
  /\ tabOpen[1]
  /\ levels_changed(new_levels)

\* new connections feed the first tab
TabInit ==
  /\ benchmark = FALSE
  /\ single_tab_mode = TRUE
  /\ clients = 1
  /\ Started

TabNext ==
  \/ incomingConnection
  \/ \E c \in SockIds, k \in TabRecordKinds : run_emits(c, k.name, k.levelname)
  \/ \E c \in SockIds : run_finishes(c)
  \/ TabDelivers
  \/ \E new_records \in ForeignStores : TabMerges(new_records)
  \/ \E new_records \in ForeignStores : TabLoads(new_records)
  \/ \E new_levels \in TabPresets : TabLevelsChanged(new_levels)

TabSpec == TabInit /\ [][TabNext]_vars

\* ---- what a tab shows: level filter, selected loggers and search filter ----
ViewLoggers == { <<"a", "b">> }
ViewLevels == {"INFO"}
Texts == { <<>>, <<"H", "i">>, <<"h", "i", "*">> }

ViewRecords ==
  [ levelname : {None, Str("INFO")},
    name : {NoName, <<"a", "b">>, <<"b">>},
    message : {NoMsg, Msg(<<"H", "i">>), Msg(<<"h", "i", "!">>)} ]

\* the search state of the filter model
Search ==
  [search_filter |-> search_filter, filter_string |-> filter_string,
   filterRegExp |-> filterRegExp, filterCaseSensitivity |-> filterCaseSensitivity]

\* LoggerTab.filter_or_clear: the Filter button sets the filter of the search
\* line's text, the Clear filter button it then is clears it
filter_or_clear(text, regex, wildcard, casesensitive) ==
  LET f == IF ~LoggerTab_search_filter
             THEN set_filter(Search, text, regex, wildcard, casesensitive)
             ELSE clear_filter(Search)
  IN  /\ LoggerTab_search_filter' = ~LoggerTab_search_filter
      /\ searched' = IF ~LoggerTab_search_filter
                       THEN [string |-> text, regexp |-> regex, wildcard |-> wildcard,
                             casesensitive |-> casesensitive]
                       ELSE NotSearched
      /\ search_filter' = f.search_filter
      /\ filter_string' = f.filter_string
      /\ filterRegExp' = f.filterRegExp
      /\ filterCaseSensitivity' = f.filterCaseSensitivity
      /\ UNCHANGED << controlVars, listenerVars, emitVars, tabVars, recordVars, storeVars, treeVars,
                      levelVars, asked_record >>

\* the filter model asks filterAcceptsRow about the record rec of a row
FilterRecord(rec, order) ==
  /\ asked_record' = rec
  /\ row' = rec.name
  /\ accepted' = RecordFilter_filterAcceptsRow(levels, nodes, order,
                                               selection_includes_children, Search, rec)
  /\ UNCHANGED << controlVars, listenerVars, emitVars, tabVars, recordVars, storeVars, levelVars,
                  nodes, registry, selected_nodes, selection_includes_children,
                  search_filter, filter_string, filterRegExp, filterCaseSensitivity,
                  LoggerTab_search_filter, searched >>

ViewNext ==
  \/ \E full_name \in ViewLoggers : RegisterName(full_name)
  \/ \E n \in 1..(2 * MaxLoggers + 1) : selection_changed(n)
  \/ \E name \in ViewLevels, enabled \in BOOLEAN : set_enabled(name, enabled)
  \/ \E text \in Texts, regex, wildcard, casesensitive \in BOOLEAN :
       filter_or_clear(text, regex, wildcard, casesensitive)
  \/ \E rec \in ViewRecords, order \in Orders(selected_nodes) : FilterRecord(rec, order)

ViewSpec == WireInit /\ [][ViewNext]_vars

\* ---- starting and stopping the server ---------------------------------------
\* Here a connection is named by the number of its accept in the run, and
\* self.threads is the list of the LogServer that self.server is.
serverSide ==
  << configVars, closeVars, mainQueue, deleted, pc, readVars, tab_closed, interrupted,
     sockOpen, peerVars, finCount, emitVars, tabVars, recordVars, storeVars, treeVars,
     levelVars, searchVars >>

\* MainWindow.start_server: LogServer(...), LogServer.start() whose listen()
\* returns result, then server_running = True
StartServer(result) ==
  /\ starts' = starts + 1
  /\ conn_count' = 0
  /\ threads' = <<>>
  /\ listening' = result
  /\ critical_dialog' = ~result
  /\ server_running' = TRUE

\* MainWindow.stop_server: close_server() when server_running
StopServer ==
  /\ listening' = IF server_running THEN FALSE ELSE listening
  /\ server_running' = FALSE

start_server(result) ==
  /\ starts < MaxStarts
  /\ StartServer(result)
  /\ UNCHANGED << serverSide, conn_ids, windowVars >>

stop_server ==
  /\ StopServer
  /\ UNCHANGED << serverSide, conn_count, threads, controlVars >>

\* MainWindow.restart_server: stop_server(), then start_server()
restart_server(result) ==
  /\ starts < MaxStarts
  /\ StartServer(result)
  /\ UNCHANGED << serverSide, conn_ids, windowVars >>

\* MainWindow.start_or_stop_server, the Start server / Stop server menu entry
start_or_stop_server(result) ==
  IF server_running THEN stop_server ELSE start_server(result)

\* LogServer.incomingConnection: the next conn_id, the handler into self.threads
accept_connection ==
  /\ listening
  /\ Len(conn_ids) < MaxAccepts
  /\ conn_count' = conn_count + 1
  /\ conn_ids' = Append(conn_ids, conn_count + 1)
  /\ threads' = Append(threads, Len(conn_ids) + 1)
  /\ UNCHANGED << serverSide, listening, server_running, starts, critical_dialog, windowVars >>

\* connection_finished of the connection of accept k reaches cleanup_connection
finish_connection(k) ==
  /\ k \in Range(threads)
  /\ threads' = cleanup_connection(threads, k)
  /\ UNCHANGED << serverSide, listening, server_running, conn_count, controlVars >>

ServerNext ==
  \/ \E result \in BOOLEAN : start_or_stop_server(result)
  \/ \E result \in BOOLEAN : restart_server(result)
  \/ accept_connection
  \/ \E k \in 1..MaxAccepts : finish_connection(k)

ServerSpec == WireInit /\ [][ServerNext]_vars

\* ---- claims -------------------------------------------------------------
\* the connection's thread is running its read loop or its exit path
Running(c) == pc[c] \in {"read", "decode", "exit"}

\* C1: once requestInterruption() or tab_closed is set on a connection whose
\* thread runs, the read loop ends, the socket is closed and
\* connection_finished is emitted, whatever the peer does; and no record is
\* emitted from a frame whose wait_and_read(4) began after the flag was set
CancelLeadsToFinished ==
  /\ \A c \in SockIds :
       (Running(c) /\ (tab_closed[c] \/ interrupted[c]))
         ~> (pc[c] = "done" /\ ~sockOpen[c] /\ finCount[c] = 1)
  /\ [](\A c \in SockIds : ~lateRecord[c])

\* a cancelled connection has finished while half a frame had been read and
\* the peer was still connected, after an earlier frame gave a record
CancelledMidFrame ==
  \E c \in SockIds :
    /\ pc[c] = "done" /\ need_to_stop(c) /\ ~peerClosed[c]
    /\ Len(data[c]) > 0
    /\ nEmitted[c] > 0

\* C2: the read loop is left only when cancellation was requested or the
\* peer has disconnected; no frame ends the connection
ExitOnlyWhenCancelledOrDisconnected ==
  \A c \in SockIds : pc[c] \in {"exit", "done"} => need_to_stop(c) \/ ~Connected(c)

\* C5: when close_server has returned the server does not listen, every
\* thread that was in self.threads has been asked to stop, and none of them
\* is still running
ClosedServerHasNoRunningThread ==
  (~server_running /\ mainPc = "idle") =>
    /\ ~listening
    /\ \A t \in Range(closeList) : interrupted[t] /\ pc[t] = "done"

\* the units read so far for the frame in progress
InProgress(c) == IF phase[c] = "len" THEN data[c] ELSE Pack(n_bytes[c]) \o data[c]

\* C8: while a connection is neither cancelled nor disconnected it stays in
\* its read loop, the units not yet handed to the codec are the frames of the
\* payloads sent and not yet handed, and a payload about to be handed is the
\* oldest of them
PayloadsHandedWholeInOrder ==
  \A c \in SockIds :
    (pc[c] # "unborn" /\ ~need_to_stop(c) /\ ~peerClosed[c]) =>
      /\ pc[c] \in {"read", "decode"}
      /\ IF pc[c] = "decode"
           THEN /\ payload[c] = Head(pending[c])
                /\ buf[c] \o wire[c] = Stream(Tail(pending[c]))
           ELSE InProgress(c) \o buf[c] \o wire[c] = Stream(pending[c])

\* the payloads that give a record under a format, and the control frames
ValidFor(fmt) == IF fmt = "pickle" THEN {RecPickle} ELSE {RecJson}

IsControl(d) == Len(d) > 0 /\ d[1] = "!!cutelog!!"

\* the step of run() that handles the payload just read
Handled(c) == pc[c] = "decode" /\ pc'[c] # "decode"

\* C3: a payload that fails to deserialize or to build a LogRecord gives no
\* record and is logged, the connection goes on reading with the same
\* deserializer; a payload that is valid for the deserializer gives a
\* record, whatever failed before it
DecodeFailureIsolated ==
  [][\A c \in SockIds :
       (Handled(c) /\ ~IsControl(payload[c])) =>
         /\ pc'[c] = "read"
         /\ deserialize'[c] = deserialize[c]
         /\ IF payload[c] \in ValidFor(deserialize[c])
              THEN /\ nEmitted'[c] = nEmitted[c] + 1
                   /\ nFailed'[c] = nFailed[c]
                   /\ mainQueue' = Append(mainQueue, mainQueue'[Len(mainQueue')])
                   /\ mainQueue'[Len(mainQueue')].type = "new_record"
              ELSE /\ nEmitted'[c] = nEmitted[c]
                   /\ nFailed'[c] = nFailed[c] + 1
                   /\ mainQueue' = mainQueue]_vars

\* a frame failed, the next frame gave a record, and the connection reads on
RecordAfterFailure ==
  \E c \in SockIds :
    /\ pc[c] = "read" /\ nHanded[c] = nFailed[c] + nEmitted[c]
    /\ nFailed[c] > 0 /\ nEmitted[c] > 0
    /\ payload[c] \in ValidFor(deserialize[c])

\* C4: a connection thread emits connection_finished at most once, and has
\* emitted it exactly when its run() has ended; a socket connection has then
\* closed its socket; no new_record follows connection_finished
FinishedOnceAtTheEnd ==
  \A c \in ConnIds :
    /\ finCount[c] <= 1
    /\ finCount[c] = 1 <=> pc[c] = "done"
    /\ finCount[c] = 1 => ~sockOpen[c]
    /\ ~lateEmit[c]

\* the benchmark connection and a socket connection have both emitted
\* records and finished
BothKindsFinished ==
  /\ finCount[BenchId] = 1 /\ nEmitted[BenchId] > 0
  /\ \E c \in SockIds : finCount[c] = 1 /\ nEmitted[c] > 0

\* C6: close_server calls thread.wait(1500) at most once per thread of
\* self.threads, and once it waits it returns, whether or not the threads stop
CloseServerReturns ==
  /\ [](waits <= Len(closeList))
  /\ (mainPc = "waiting") ~> (mainPc = "idle" /\ ~server_running)

\* close_server has returned after one wait for each of several threads,
\* one of which is still running
ReturnedWithRunningThread ==
  /\ mainPc = "idle" /\ ~server_running
  /\ Len(closeList) > 1 /\ waits = Len(closeList)
  /\ \E t \in Range(closeList) : pc[t] # "done"

\* C7: the records of a tab's store are in the order they were emitted to the
\* tab, and those of one connection are in the order of their frames
StoreKeepsArrivalOrder ==
  \A t \in TabIds : \A i, j \in 1..Len(records[t]) :
    (i < j /\ records[t][i].kind = "rec" /\ records[t][j].kind = "rec") =>
      /\ records[t][i].stamp < records[t][j].stamp
      /\ records[t][i].conn = records[t][j].conn => records[t][i].seq < records[t][j].seq

\* a store holds records of two connections
StoreHoldsTwoConnections ==
  \E t \in TabIds : \E i, j \in 1..Len(records[t]) :
    /\ records[t][i].kind = "rec" /\ records[t][j].kind = "rec"
    /\ records[t][i].conn # records[t][j].conn

\* C9: the deserializer of a connection is the format named by the last
\* well-formed format command for a registered format that it has handled,
\* the configured default before any; a payload gives a record exactly when
\* it is valid for that format
FormatCommandSwitchesDecoder ==
  /\ [](\A c \in SockIds : deserialize[c] = fmtCmd[c])
  /\ [][\A c \in SockIds :
          (Handled(c) /\ ~IsControl(payload[c])) =>
            (nEmitted'[c] = nEmitted[c] + 1 <=> payload[c] \in ValidFor(fmtCmd[c]))]_vars

\* after format=json a JSON payload has given a record
JsonRecordAfterSwitch ==
  \E c \in SockIds :
    /\ deserialize[c] = "json" /\ payload[c] = RecJson
    /\ pc[c] = "read" /\ nHanded[c] > 1 /\ nEmitted[c] > 0

\* C10: handling a payload that starts with the sentinel emits no record and
\* the connection goes on reading; unless it is a well-formed format command
\* for a registered format, the deserializer is left as it was
ControlFrameIsolated ==
  [][\A c \in SockIds :
       (Handled(c) /\ IsControl(payload[c])) =>
         /\ pc'[c] = "read"
         /\ nEmitted'[c] = nEmitted[c] /\ nFailed'[c] = nFailed[c]
         /\ mainQueue' = mainQueue
         /\ payload[c] \notin {CmdJson, CmdPickle} => deserialize'[c] = deserialize[c]]_vars

\* after a switch to json, a command for an unregistered format, a command
\* without '=', one that is not UTF-8 or an unknown command was handled, and
\* the connection reads on with json
BadCommandHandled ==
  \E c \in SockIds :
    /\ pc[c] = "read" /\ nHanded[c] > 1
    /\ payload[c] \in {CmdCbor, CmdNoEq, CmdBadUtf, CmdUnknown}
    /\ deserialize[c] = "json"

IsNumber(v) == v.type = "num"

\* C16: the record's created is mapping['created'] if that is a number, else
\* mapping['time'] if that is a number, else the current time
CreatedFallsBackToTime ==
  record # NoRecord =>
    record.created = IF IsNumber(logDict.created) THEN logDict.created
                     ELSE IF IsNumber(logDict.time) THEN logDict.time
                     ELSE Num(clock)

\* C17: message is mapping['message'] if present, else mapping['msg'];
\* level_name is the upper-cased mapping['levelname'] if present, else the
\* upper-cased mapping['level'], else none; {msg, level: 'warn', time: 1}
\* gives that msg, 'WARN' and 1
MessageAndLevelNormalized ==
  record # NoRecord =>
    /\ record.message = IF logDict.message # None THEN logDict.message ELSE logDict.msg
    /\ record.levelname =
         IF logDict.levelname # None THEN Str(Upper(logDict.levelname.str))
         ELSE IF logDict.level # None THEN Str(Upper(logDict.level.str))
         ELSE None
    /\ logDict = [EmptyDict EXCEPT !.msg = Str("hi"), !.level = Str("warn"), !.time = Num(1)]
         => record = [message |-> Str("hi"), levelname |-> Str("WARN"), created |-> Num(1)]

\* the record of {msg, level: 'warn', time: 1} and one of a mapping with both
\* 'message' and 'msg', 'levelname' and 'level' have been made
ExampleRecordMade ==
  /\ logDict = [EmptyDict EXCEPT !.msg = Str("hi"), !.level = Str("warn"), !.time = Num(1)]
  /\ record.levelname = Str("WARN")
  /\ record.message = Str("hi")

\* the last n elements of a sequence
LastN(recs, n) == SubSeq(recs, Len(recs) - n + 1, Len(recs))

\* C11: from an empty store with max_capacity k > 0, after N > k successive
\* add_record calls the store holds exactly the last k records added, in order
EvictionKeepsLastK ==
  \A t \in TabIds :
    (addsOnly[t] /\ max_capacity[t] > 0 /\ Len(added[t]) > max_capacity[t]) =>
      records[t] = LastN(added[t], max_capacity[t])

\* a store of capacity 2 that was empty has been given 3 records
ThreeAddedToCapacityTwo ==
  \E t \in TabIds :
    /\ addsOnly[t] /\ max_capacity[t] = 2 /\ Len(added[t]) = 3
    /\ Len(records[t]) = 2 /\ op = "add_record"

\* C12: a tab whose max_capacity is k > 0 holds at most k records
StoreWithinCapacity ==
  \A t \in TabIds : max_capacity[t] > 0 => Len(records[t]) <= max_capacity[t]

\* C13: set_max_capacity(n) with n > 0 on a store of more than n records
\* leaves exactly its newest n records, in order; set_max_capacity(0) leaves
\* the store as it is, without a limit
SetCapacityKeepsNewestN ==
  [][\A t \in TabIds, n \in Capacities :
       (op' = "set_max_capacity" /\ set_max_capacity(t, n)) =>
         /\ (n > 0 /\ Len(records[t]) > n) => records'[t] = LastN(records[t], n)
         /\ n = 0 => (records'[t] = records[t] /\ max_capacity'[t] = 0)]_vars

\* C14: trim_except_last_n(n) with 0 <= n < size leaves exactly the newest n
\* records in order; with n >= size it leaves the store as it is
TrimKeepsNewestN ==
  [][\A t \in TabIds, n \in Keeps :
       (op' = "trim_except_last_n" /\ trim_current_tab_records(t, n)) =>
         records'[t] = IF n < Len(records[t]) THEN LastN(records[t], n) ELSE records[t]]_vars

\* three records were added to a store without a limit, and a trim has left
\* the last two of them
TrimmedToLastTwo ==
  \E t \in TabIds :
    /\ op = "trim_except_last_n" /\ max_capacity[t] = 0
    /\ Len(records[t]) = 2
    /\ records[t][1].stamp = 2 /\ records[t][2].stamp = 3

\* position of a record in a sequence of distinct records
IndexOf(recs, r) == CHOOSE i \in 1..Len(recs) : recs[i] = r

\* C15: a merge makes the destination store a permutation of its records
\* followed by the incoming ones, in non-decreasing order of created, records
\* of equal created keeping the order they had in that chain
MergeSortsStably ==
  [][\A dst, src \in TabIds, keep_alive \in BOOLEAN :
       (op' = "merge_tabs" /\ merge_tabs(dst, src, keep_alive)) =>
         LET chain == records[dst] \o records[src]
             res == records'[dst]
         IN  /\ Len(res) = Len(chain)
             /\ Range(res) = Range(chain)
             /\ \A i, j \in 1..Len(res) :
                  i < j =>
                    /\ res[i].created <= res[j].created
                    /\ res[i].created = res[j].created
                         => IndexOf(chain, res[i]) < IndexOf(chain, res[j])]_vars

\* a merge has moved an incoming record before a destination record, and has
\* left a destination record before an incoming record of the same created
MergedWithTieAndReorder ==
  /\ op = "merge_tabs"
  /\ \E t \in TabIds :
       /\ Len(records[t]) = 3
       /\ \E i, j \in 1..3 : i < j /\ records[t][i].stamp > records[t][j].stamp
       /\ \E i, j \in 1..3 : i < j /\ records[t][i].created = records[t][j].created

\* the names of the nodes from below the root down to node n, joined by '.'
RECURSIVE NamesBelowRoot(_)
NamesBelowRoot(n) ==
  IF n = Root THEN <<>> ELSE Append(NamesBelowRoot(nodes[n].parent), nodes[n].name)

JoinedPath(n) == IF NamesBelowRoot(n) = <<>> THEN RootName ELSE NamesBelowRoot(n)

\* C18: with nothing selected every record passes the namespace filter; with
\* a selection without the root, a record passes iff it has a name and for
\* some selected node of path p its name is p, or children are included and
\* its name starts with p + '.'; in whatever order the nodes are examined
NamespaceFilterMatchesPaths ==
  [][\A name \in RecordNames, order \in Orders(selected_nodes) :
       FilterRow(name, order) =>
         /\ selected_nodes = {} => accepted' = "True"
         /\ (selected_nodes # {} /\ Root \notin selected_nodes) =>
              accepted' =
                IF /\ name # NoName
                   /\ \E n \in selected_nodes :
                        \/ name = JoinedPath(n)
                        \/ /\ selection_includes_children
                           /\ StartsWithDotted(name, JoinedPath(n))
                  THEN "True" ELSE "False"]_vars

\* C19: with the root among the selected nodes every record passes the
\* namespace filter, the one without a logger name too
RootSelectionPassesAll ==
  [][\A name \in RecordNames, order \in Orders(selected_nodes) :
       (FilterRow(name, order) /\ Root \in selected_nodes) => accepted' = "True"]_vars

\* C20: the node registered for a logger name has that name as its path, and
\* no two nodes have the same path
RegistryPathsAreNames ==
  /\ \A n \in DOMAIN registry : JoinedPath(registry[n]) = n
  /\ \A x, y \in 1..Len(nodes) : x # y => JoinedPath(x) # JoinedPath(y)

\* how many times n is in the sequence s
Occurrences(s, n) == Cardinality({i \in 1..Len(s) : s[i] = n})

\* C21: register_logger(full_name) leaves full_name and each of its dot-prefix
\* ancestors registered, keeps what was registered, puts each new node once
\* into the children of its parent and of no other node, at the end; for a
\* name that is registered it returns the registered node and leaves the
\* registry and the tree as they are
RegisterLoggerEnsuresAncestors ==
  [][\A full_name \in LoggerNames :
       RegisterName(full_name) =>
         LET again == register_logger([nodes |-> nodes', registry |-> registry',
                                       result |-> Root], full_name)
             old == 1..Len(nodes)
             new == (Len(nodes) + 1)..Len(nodes')
         IN  /\ \A k \in 1..Len(full_name) : SubSeq(full_name, 1, k) \in DOMAIN registry'
             /\ \A n \in DOMAIN registry : n \in DOMAIN registry' /\ registry'[n] = registry[n]
             /\ Len(nodes') >= Len(nodes)
             /\ \A n \in old :
                  /\ nodes'[n].name = nodes[n].name
                  /\ nodes'[n].parent = nodes[n].parent
                  /\ Len(nodes'[n].children) >= Len(nodes[n].children)
                  /\ SubSeq(nodes'[n].children, 1, Len(nodes[n].children)) = nodes[n].children
                  /\ \A i \in (Len(nodes[n].children) + 1)..Len(nodes'[n].children) :
                       nodes'[n].children[i] \in new
             /\ \A n \in new :
                  /\ \A q \in 1..Len(nodes') :
                       Occurrences(nodes'[q].children, n) =
                         IF q = nodes'[n].parent THEN 1 ELSE 0
                  /\ Cardinality({x \in DOMAIN registry' : registry'[x] = n}) = 1
             /\ full_name \in DOMAIN registry => (nodes' = nodes /\ registry' = registry)
             /\ again.result = registry'[full_name]
             /\ again.nodes = nodes'
             /\ again.registry = registry']_vars

\* 'a.b' was registered before 'a': both are there, 'a.b' below 'a'
DottedNameRegistered ==
  /\ <<"a">> \in DOMAIN registry /\ <<"a", "b">> \in DOMAIN registry
  /\ nodes[registry[<<"a">>]].children = << registry[<<"a", "b">>] >>
  /\ nodes[Root].children = << registry[<<"a">>] >>
  /\ Len(nodes) = 3

\* C22: a record is in the level filter iff it has no levelname, or its
\* levelname is the name of one of the tab's levels and that level is enabled
LevelFilterPassesEnabled ==
  [][\A name \in LevelNames :
       LevelFilterAsked(name) =>
         (passes' = "True" <=>
            \/ name = None
            \/ /\ name.str \in DOMAIN levels
               /\ levels[name.str].enabled)]_vars

\* a record of a level that the user has disabled was held back
DisabledLevelHeldBack ==
  /\ asked_levelname = Str("INFO") /\ "INFO" \in DOMAIN levels /\ ~levels["INFO"].enabled
  /\ passes = "False"

\* C23: process_level of a name that, upper-cased, is not among the tab's
\* levels adds one level of that upper-cased name, enabled, and returns it;
\* of a name that is among them, in whatever letter case, it returns the
\* level of that name and leaves the levels, their enabled flags too, as
\* they are
ResolveAddsOneLevelOnce ==
  [][\A x \in LevelInputs :
       ProcessLevel(x) =>
         /\ returned_level' = Upper(x)
         /\ IF Upper(x) \in DOMAIN levels
              THEN levels' = levels
              ELSE /\ DOMAIN levels' = DOMAIN levels \cup {Upper(x)}
                   /\ levels'[Upper(x)].enabled
                   /\ \A n \in DOMAIN levels : levels'[n] = levels[n]]_vars

\* TRACE has been added beside the five default levels and is disabled, and
\* process_level has returned it
TraceResolvedAndDisabled ==
  /\ DOMAIN levels = DOMAIN DEFAULT_LEVELS \cup {"TRACE"}
  /\ ~levels["TRACE"].enabled
  /\ returned_level = "TRACE"

\* the text is found in the message, letter case counting only if cs
Found(text, message, cs) ==
  \E i \in 0..(Len(message) - Len(text)) :
    \A k \in 1..Len(text) : SameChar(text[k], message[i + k], cs)

\* the message matches what was searched for: an empty text is matched by
\* every message, a plain text by the messages it is found in, a regular
\* expression or a wildcard pattern by the messages it describes
Matches(q, message) ==
  IF Len(q.string) = 0 THEN TRUE
  ELSE IF q.regexp THEN RegExpMatch(q.string, message, q.casesensitive)
  ELSE IF q.wildcard THEN WildcardMatch(q.string, message, q.casesensitive)
  ELSE Found(q.string, message, q.casesensitive)

\* C24: a record is shown iff it is in the level filter, the selected loggers
\* let it through and, while a search filter is set, it has a message that
\* matches what was searched for, without regard to letter case unless case
\* sensitive was chosen; once the filter is cleared the first two decide alone
VisibleIffAllFiltersPass ==
  [][UNCHANGED << levels, nodes, selected_nodes, selection_includes_children,
                  LoggerTab_search_filter >> =>
       \A order \in Orders(selected_nodes) :
         FilterRecord(asked_record', order) =>
           (accepted' = "True" <=>
              /\ LevelFilter__contains__(levels, asked_record'.levelname)
              /\ filterAcceptsRow(nodes, order, asked_record'.name,
                                  selection_includes_children) = "True"
              /\ LoggerTab_search_filter =>
                   /\ asked_record'.message.has
                   /\ Matches(searched, asked_record'.message.text))]_vars

\* 'Hi' is searched for without regard to case; the record of message 'hi!'
\* of the selected logger a.b and of the enabled level INFO is shown
ShownByAllThree ==
  /\ LoggerTab_search_filter /\ searched.string = <<"H", "i">>
  /\ ~searched.regexp /\ ~searched.wildcard /\ ~searched.casesensitive
  /\ selected_nodes # {} /\ levels["INFO"].enabled
  /\ asked_record = [levelname |-> Str("INFO"), name |-> <<"a", "b">>,
                      message |-> Msg(<<"h", "i", "!">>)]
  /\ accepted = "True"

\* the signal that the GUI thread delivers next is connection_finished of c
FinishedIsNext(c) ==
  /\ Len(mainQueue) > 0
  /\ Head(mainQueue).type = "connection_finished"
  /\ Head(mainQueue).conn = c

\* C26: a connection leaves self.threads only when its connection_finished is
\* delivered, is in the list until then and not in it afterwards, and never
\* comes back; cleanup_connection of a thread that is not in the list gives
\* the list as it is
HandlerRemovedOnceOnFinish ==
  [][/\ \A c \in ConnIds :
          /\ (c \in Range(threads) /\ c \notin Range(threads')) =>
               (FinishedIsNext(c) /\ DeliverSignal)
          /\ (FinishedIsNext(c) /\ DeliverSignal) =>
               /\ Occurrences(threads, c) = 1
               /\ threads' = Remove(threads, c)
               /\ c \notin Range(threads')
          /\ (c \notin Range(threads) /\ c \in Range(threads')) => pc[c] = "unborn"
     /\ \A t \in ThreadIds \ Range(threads) : cleanup_connection(threads, t) = threads]_vars

\* a socket connection has finished and is out of self.threads, while the
\* benchmark connection is still in it
FinishedHandlerRemoved ==
  /\ \E c \in SockIds : finCount[c] = 1 /\ c \notin Range(threads) /\ conn_count >= c
  /\ BenchId \in Range(threads)

\* C25: a start of the server whose listen() fails shows the critical dialog
\* and leaves the server not listening and server_running false
FailedStartLeavesServerStopped ==
  [][((~server_running /\ start_or_stop_server(FALSE)) \/ restart_server(FALSE)) =>
       (critical_dialog' /\ ~listening' /\ ~server_running')]_vars

\* C27: every conn_id given in the run is greater than all given before it
ConnIdsIncrease ==
  \A i, j \in 1..Len(conn_ids) : i < j => conn_ids[i] < conn_ids[j]

\* the completion of connection c has been emitted and delivered to its slots
Processed(c) ==
  /\ finCount[c] > 0
  /\ \A i \in 1..Len(mainQueue) :
        ~(mainQueue[i].type = "connection_finished" /\ mainQueue[i].conn = c)

\* C28: the connection list of an open tab holds only connections that still
\* feed it: a connection that has finished and whose completion has been
\* processed is in the list of no open tab
ConnectionsAreFeeding ==
  \A t \in TabIds : tabOpen[t] =>
    \A c \in Range(connections[t]) : tabOf[c] = t /\ ~Processed(c)

\* the positions in the store recs of the entries of kind k of connection c
EntriesOf(recs, c, k) == { i \in 1..Len(recs) : recs[i].conn = c /\ recs[i].kind = k }

\* C29: once a connection has terminated and its completion has been processed
\* while the tab receiving its records is open, that tab's store holds exactly
\* one connection-closed marker of the connection, after all of its records
OneMarkerAfterRecords ==
  \A c \in ConnIds :
    (Processed(c) /\ tabOf[c] \in TabIds /\ tabOpen[tabOf[c]]) =>
      LET recs == records[tabOf[c]]
      IN  /\ Cardinality(EntriesOf(recs, c, "closed")) = 1
          /\ \A i \in EntriesOf(recs, c, "rec"), j \in EntriesOf(recs, c, "closed") : i < j

\* how many times x occurs in the sequence s
CountIn(s, x) == Cardinality({ i \in 1..Len(s) : s[i] = x })

\* C30: loading the file saved from a tab yields records with the created
\* timestamps and the field mappings the tab's records were made with, each
\* as many times as in the tab
SaveLoadRoundTrip ==
  [][\A tm \in Times :
       (load_records(tm) /\ Len(saved_file.records) = Len(received)) =>
         /\ Len(loaded_records'.records) = Len(received)
         /\ \A i \in 1..Len(received) :
              CountIn(loaded_records'.records, received[i]) = CountIn(received, received[i])]_vars

\* C31: a step of a connection's thread, which is one that emits a record or
\* the completion, leaves the store, the levels and the namespace tree of the
\* tab as they are
HandlerNeverTouchesTab ==
  [][(nEmitted' # nEmitted \/ finCount' # finCount) =>
       UNCHANGED << records, levels, nodes, registry >>]_vars

\* a record has been emitted and not delivered, and the tab holds nothing of it
EmittedNotYetStored ==
  /\ nEmitted[1] = 1
  /\ Len(mainQueue) = 1
  /\ mainQueue[1].rec.name = <<"a", "b">>
  /\ records[1] = <<>>
  /\ <<"a", "b">> \notin DOMAIN registry

StoredLevelsRegistered ==
  tabOpen[1] =>
    \A i \in 1..Len(records[1]) :
      HasLevel(records[1][i]) => records[1][i].levelname.str \in DOMAIN levels

\* what a call with argument n has to leave of the store recs when n is taken
\* as the nearest of 0..Len(recs)
KeptOf(recs, n) == LastN(recs, IF n < 0 THEN 0 ELSE IF n > Len(recs) THEN Len(recs) ELSE n)

CapacityAtOrAboveSizeKeepsStore ==
  [][op' = "set_max_capacity" =>
       \A t \in StoreTabs, n \in Capacities :
         (n > 0 /\ Len(records[t]) <= n /\ set_max_capacity(t, n)) =>
           records'[t] = records[t]]_vars

\* C39: saving changes nothing in the tab: after save_records the store holds
\* the same records in the same order, each with the same mapping and created
SaveLeavesTabAlone ==
  [][save_records => tab_records' = tab_records]_vars

\* C35: a tab closed by any route (tab close request, its popped-out window
\* closed, merge source without keep-alive, shutdown) is out of the tab map and
\* tab_closed is set on each of its connections, which is what stops them
ClosedTabCancelsConnections ==
  \A t \in TabIds :
    (t <= nTabs /\ (~tabOpen[t] \/ t \in window_closed)) =>
      (~tabOpen[t] /\ \A c \in Range(connections[t]) : tab_closed[c])

\* C34: a connection moved by a merge with keep-alive on has, once none of its
\* records is waiting for delivery, every record it emitted in the store of the
\* destination tab (capacity unbounded), those emitted before the merge included
KeepAliveLosesNoRecord ==
  \A c \in ConnIds :
    ( /\ tabOf[c] # 0 /\ finished_to[c] = 0
      /\ tabOpen[tabOf[c]] /\ max_capacity[tabOf[c]] = 0
      /\ \A i \in 1..Len(mainQueue) :
           ~(mainQueue[i].type = "new_record" /\ mainQueue[i].conn = c) )
    => Cardinality(EntriesOf(records[tabOf[c]], c, "rec")) = nEmitted[c]

\* the new_record signals of connection c that wait for the GUI thread
Queued(c) ==
  { i \in 1..Len(mainQueue) : mainQueue[i].type = "new_record" /\ mainQueue[i].conn = c }

\* C33: after a merge with keep-alive off every connection of the source tab is
\* cancelled and eventually terminates; the merge leaves the connections of the
\* destination tab running, and what they emit reaches the destination's store
MergeOffStopsSourcesOnly ==
  /\ \A c \in ConnIds : tab_closed[c] ~> (pc[c] = "done")
  /\ [][\A dst, src \in TabIds :
          merge_tabs(dst, src, FALSE) =>
            /\ \A c \in Range(connections[src]) : tab_closed'[c]
            /\ \A c \in Range(connections[dst]) :
                 tab_closed'[c] = tab_closed[c] /\ pc'[c] = pc[c] /\ tabOf'[c] = dst]_vars
  /\ [](\A c \in ConnIds :
          (tabOf[c] # 0 /\ ~tab_closed[c] /\ tabOpen[tabOf[c]] /\ Queued(c) = {}) =>
            Cardinality(EntriesOf(records[tabOf[c]], c, "rec")) = nEmitted[c])

\* a merged source connection has terminated, and the destination holds a
\* record that its own running connection emitted later than all of the source
SourceStoppedDestinationFed ==
  \E c, d \in ConnIds :
    /\ c # d /\ tab_closed[c] /\ pc[c] = "done" /\ nEmitted[c] > 0
    /\ ~tab_closed[d] /\ tabOf[d] # 0 /\ tabOpen[tabOf[d]] /\ ~tabOpen[tabOf[c]]
    /\ \E i \in EntriesOf(records[tabOf[d]], d, "rec") :
         \A j \in EntriesOf(records[tabOf[d]], c, "rec") :
           records[tabOf[d]][j].stamp < records[tabOf[d]][i].stamp
    /\ EntriesOf(records[tabOf[d]], c, "rec") # {}

====
